---- MODULE Spec2Model ----
(***************************************************************************)
(* Model of the financial calculation engine (performFinancialCalculation *)
(* and its five solvers) of the Fin-app repository.                        *)
(*                                                                         *)
(* ECMAScript numbers are IEEE-754 binary64 values.  The model keeps the   *)
(* structure of that arithmetic (a binary floating-point format with       *)
(* round-to-nearest, ties-to-even after every operation, NaN, +/-Infinity  *)
(* and `undefined`) and scales the significand down from 53 bits to Prec   *)
(* bits and the exponent range with it: a result of magnitude 2^MaxExp or  *)
(* more overflows to +/-Infinity, and no number has bits below 2^MinExp    *)
(* (gradual underflow).  The sign of zero is not represented.              *)
(***************************************************************************)
EXTENDS Integers, Sequences, FiniteSets, TLC

(***************************************************************************)
(* Bounds of the model.                                                    *)
(***************************************************************************)
\* bits of significand of a number (53 in binary64)
Prec == 6

(***************************************************************************)
(* Numbers.  A finite number is m * 2^e, kept canonical (m odd, or m = 0   *)
(* and e = 0) so that equal values are equal records.                      *)
(***************************************************************************)
NaN == [k |-> "nan", m |-> 0, e |-> 0]
Infinity == [k |-> "inf", m |-> 1, e |-> 0]
NegInfinity == [k |-> "inf", m |-> -1, e |-> 0]
Undefined == [k |-> "undef", m |-> 0, e |-> 0]

RECURSIVE Pow2(_)
Pow2(n) == IF n <= 0 THEN 1 ELSE 2 * Pow2(n - 1)

RECURSIVE BitLen(_)
BitLen(n) == IF n <= 0 THEN 0 ELSE 1 + BitLen(n \div 2)

Abs(n) == IF n < 0 THEN -n ELSE n
Sgn(n) == IF n < 0 THEN -1 ELSE IF n = 0 THEN 0 ELSE 1
MinInt(a, b) == IF a <= b THEN a ELSE b

\* exponent range (binary64: magnitudes below 2^1024, bits down to
\* 2^-1074 = 2^(3 - 1024 - 53), so that the reciprocal of the smallest numbers
\* overflows)
MaxExp == 4 * Prec
MinExp == 3 - MaxExp - Prec

RECURSIVE Canon(_, _)
Canon(m, e) ==
  IF m = 0 THEN [k |-> "fin", m |-> 0, e |-> 0]
  ELSE IF m % 2 = 0 THEN Canon(m \div 2, e + 1)
  ELSE [k |-> "fin", m |-> m, e |-> e]

\* Round the magnitude mag * 2^e (mag >= 0; sticky says that a nonzero
\* remainder below the last bit of mag was cut off) to Prec significant
\* bits, to nearest, ties to even; sg is the sign of the result.
\* A magnitude of 2^MaxExp or more becomes an infinity; bits below 2^MinExp
\* are rounded away.
RoundMag(sg, mag, e, sticky) ==
  LET p == BitLen(mag) - Prec
      u == MinExp - e
      s == IF p >= u THEN p ELSE u
  IN IF mag = 0 \/ s > BitLen(mag) + 1 THEN Canon(0, 0)
     ELSE LET q == IF s <= 0 THEN mag ELSE mag \div Pow2(s)
              low == IF s <= 0 THEN 0 ELSE mag % Pow2(s)
              half == IF s <= 0 THEN 1 ELSE Pow2(s - 1)
              up == \/ low > half
                    \/ low = half /\ sticky
                    \/ low = half /\ ~sticky /\ q % 2 = 1
              r == IF s <= 0 THEN mag ELSE IF up THEN q + 1 ELSE q
              re == IF s <= 0 THEN e ELSE e + s
          IN IF BitLen(r) + re > MaxExp
             THEN [k |-> "inf", m |-> sg, e |-> 0]
             ELSE Canon(sg * r, re)

Round(m, e) == RoundMag(Sgn(m), Abs(m), e, FALSE)

\* the number literal n (an integer)
Num(n) == Round(n, 0)
\* the number literal n / 2^h
Dyadic(n, h) == Round(n, -h)

\* Number.MAX_VALUE and Number.MIN_VALUE
MaxValue == [k |-> "fin", m |-> Pow2(Prec) - 1, e |-> MaxExp - Prec]
MinValue == [k |-> "fin", m |-> 1, e |-> MinExp]

IsFin(a) == a.k = "fin"
IsInf(a) == a.k = "inf"
\* ToNumber(undefined) is NaN
IsNaN(a) == a.k = "nan" \/ a.k = "undef"

\* the exponent above the leading bit of a finite a # 0
Top(a) == BitLen(Abs(a.m)) + a.e

Neg(a) ==
  IF IsNaN(a) THEN NaN
  ELSE IF IsInf(a) THEN [a EXCEPT !.m = -a.m]
  ELSE Canon(-a.m, a.e)

Add(a, b) ==
  IF IsNaN(a) \/ IsNaN(b) THEN NaN
  ELSE IF IsInf(a) /\ IsInf(b) THEN (IF a.m = b.m THEN a ELSE NaN)
  ELSE IF IsInf(a) THEN a
  ELSE IF IsInf(b) THEN b
  ELSE IF a.m = 0 THEN b
  ELSE IF b.m = 0 THEN a
  \* an operand below a quarter of the other's last place does not change it
  ELSE IF Top(a) - Top(b) > Prec + 2 THEN a
  ELSE IF Top(b) - Top(a) > Prec + 2 THEN b
  ELSE LET e == MinInt(a.e, b.e)
       IN Round(a.m * Pow2(a.e - e) + b.m * Pow2(b.e - e), e)

Sub(a, b) == Add(a, Neg(b))

Mul(a, b) ==
  IF IsNaN(a) \/ IsNaN(b) THEN NaN
  ELSE IF IsInf(a) \/ IsInf(b) THEN
    (IF a.m = 0 \/ b.m = 0 THEN NaN
     ELSE IF Sgn(a.m) * Sgn(b.m) > 0 THEN Infinity ELSE NegInfinity)
  ELSE Round(a.m * b.m, a.e + b.e)

Div(a, b) ==
  IF IsNaN(a) \/ IsNaN(b) THEN NaN
  ELSE IF IsInf(a) THEN
    (IF IsInf(b) THEN NaN
     ELSE IF Sgn(a.m) * (IF b.m < 0 THEN -1 ELSE 1) > 0 THEN Infinity ELSE NegInfinity)
  ELSE IF IsInf(b) THEN Num(0)
  ELSE IF b.m = 0 THEN
    (IF a.m = 0 THEN NaN ELSE IF a.m > 0 THEN Infinity ELSE NegInfinity)
  ELSE LET sh == Prec + 2 + BitLen(Abs(b.m))
           num == Abs(a.m) * Pow2(sh)
           q == num \div Abs(b.m)
           r == num % Abs(b.m)
       IN RoundMag(Sgn(a.m) * Sgn(b.m), q, a.e - b.e - sh, r # 0)

\* a < b, a <= b, a === b, a > b on numbers (false when either is NaN)
Lt(a, b) ==
  IF IsNaN(a) \/ IsNaN(b) THEN FALSE
  ELSE IF IsInf(a) THEN a.m < 0 /\ ~(IsInf(b) /\ b.m < 0)
  ELSE IF IsInf(b) THEN b.m > 0
  ELSE IF Sgn(a.m) # Sgn(b.m) THEN Sgn(a.m) < Sgn(b.m)
  ELSE IF a.m = 0 THEN FALSE
  ELSE IF Top(a) # Top(b) THEN (IF a.m > 0 THEN Top(a) < Top(b) ELSE Top(a) > Top(b))
  ELSE LET e == MinInt(a.e, b.e)
       IN a.m * Pow2(a.e - e) < b.m * Pow2(b.e - e)

StrictEq(a, b) == ~IsNaN(a) /\ ~IsNaN(b) /\ a = b
Le(a, b) == Lt(a, b) \/ StrictEq(a, b)
Gt(a, b) == Lt(b, a)
Ge(a, b) == Le(b, a)

\* Math.max(a, b)
Max(a, b) ==
  IF IsNaN(a) \/ IsNaN(b) THEN NaN
  ELSE IF Lt(a, b) THEN b ELSE a

(***************************************************************************)
(* Math.log and Math.pow.  ECMAScript leaves their results                 *)
(* implementation-approximated; the model computes them in fixed point     *)
(* with FixBits fractional bits and rounds once at the end.  A power with  *)
(* a non-negative integer exponent is computed by repeated multiplication  *)
(* on a wide significand, so pow(1, k) = 1 and small powers are exact.     *)
(***************************************************************************)
FixBits == 14
FixOne == Pow2(FixBits)
\* ln 2 in fixed point
FixLn2 == (11357 * FixOne) \div 16384

FixMul(x, y) ==
  LET p == Abs(x) * Abs(y) IN Sgn(x) * Sgn(y) * ((p + FixOne \div 2) \div FixOne)

\* the significand of m * 2^e as a fixed-point value in [1, 2), m > 0
FixMant(m) ==
  LET b == BitLen(m) IN
  IF b - 1 <= FixBits THEN m * Pow2(FixBits - (b - 1))
  ELSE m \div Pow2((b - 1) - FixBits)

\* 2 * (z + z^3/3 + z^5/5 + ... + z^11/11), z in [0, 1/3]
FixAtanhSeries(z) ==
  LET z2 == FixMul(z, z)
      t3 == FixMul(z, z2)
      t5 == FixMul(t3, z2)
      t7 == FixMul(t5, z2)
      t9 == FixMul(t7, z2)
      t11 == FixMul(t9, z2)
  IN 2 * (z + t3 \div 3 + t5 \div 5 + t7 \div 7 + t9 \div 9 + t11 \div 11)

\* ln(m * 2^e) in fixed point, m > 0
FixLn(m, e) ==
  LET x == FixMant(m)
      z == ((x - FixOne) * FixOne) \div (x + FixOne)
  IN FixAtanhSeries(z) + (e + BitLen(m) - 1) * FixLn2

\* Math.log(a)
Log(a) ==
  IF IsNaN(a) THEN NaN
  ELSE IF IsInf(a) THEN (IF a.m > 0 THEN Infinity ELSE NaN)
  ELSE IF a.m < 0 THEN NaN
  ELSE IF a.m = 0 THEN NegInfinity
  ELSE Round(FixLn(a.m, a.e), -FixBits)

\* floor division for a possibly negative numerator
FloorDiv(n, d) == IF n >= 0 THEN n \div d ELSE -((-n + d - 1) \div d)

\* exp(r) in fixed point for r in [0, ln 2): 1 + r + r^2/2! + ... + r^8/8!
FixExpSeries(r) ==
  LET t2 == FixMul(r, r) \div 2
      t3 == FixMul(t2, r) \div 3
      t4 == FixMul(t3, r) \div 4
      t5 == FixMul(t4, r) \div 5
      t6 == FixMul(t5, r) \div 6
      t7 == FixMul(t6, r) \div 7
      t8 == FixMul(t7, r) \div 8
  IN FixOne + r + t2 + t3 + t4 + t5 + t6 + t7 + t8

\* exp(y) for a fixed-point y, as a number
ExpFix(y) ==
  LET kk == FloorDiv(y, FixLn2)
      r == y - kk * FixLn2
  IN Round(FixExpSeries(r), kk - FixBits)

\* x * y for a number x = m * 2^e (finite) and a fixed-point y, in fixed point
FixScale(x, y) ==
  IF x.e >= 0 THEN x.m * Pow2(x.e) * y
  ELSE Sgn(x.m) * Sgn(y) * ((Abs(x.m) * Abs(y) + Pow2(-x.e - 1)) \div Pow2(-x.e))

\* the product of two significands <<mag, e, sticky>>, cut to FixBits + 1 bits
CutMul(x, y) ==
  LET p == x[1] * y[1]
      s == BitLen(p) - (FixBits + 1)
  IN IF s > 0 THEN <<p \div Pow2(s), x[2] + y[2] + s, x[3] \/ y[3] \/ p % Pow2(s) # 0>>
     ELSE <<p, x[2] + y[2], x[3] \/ y[3]>>

\* (m * 2^e)^k for k >= 0 by repeated squaring, as <<mag, e, sticky>>
RECURSIVE PowAcc(_, _, _)
PowAcc(m, e, k) ==
  IF k = 0 THEN <<1, 0, FALSE>>
  ELSE LET h == PowAcc(m, e, k \div 2)
           sq == CutMul(h, h)
       IN IF k % 2 = 1 THEN CutMul(sq, <<m, e, FALSE>>) ELSE sq

IsInteger(a) == IsFin(a) /\ a.e >= 0
IntValue(a) == a.m * Pow2(a.e)

\* Math.pow(b, x)
Pow(b, x) ==
  IF IsNaN(x) THEN NaN
  ELSE IF IsFin(x) /\ x.m = 0 THEN Num(1)
  ELSE IF IsNaN(b) THEN NaN
  ELSE IF IsInf(x) THEN
    (IF IsInf(b) \/ Gt(b, Num(1)) \/ Lt(b, Num(-1))
       THEN (IF x.m > 0 THEN Infinity ELSE Num(0))
     ELSE IF b = Num(1) \/ b = Num(-1) THEN NaN
     ELSE (IF x.m > 0 THEN Num(0) ELSE Infinity))
  ELSE IF IsInf(b) THEN
    (IF x.m < 0 THEN Num(0)
     ELSE IF b.m > 0 \/ ~IsInteger(x) \/ IntValue(x) % 2 = 0 THEN Infinity
     ELSE NegInfinity)
  ELSE IF b.m = 0 THEN (IF x.m > 0 THEN Num(0) ELSE Infinity)
  ELSE IF IsInteger(x) THEN
    LET k == Abs(IntValue(x))
        r == PowAcc(Abs(b.m), b.e, k)
        sg == IF b.m < 0 /\ k % 2 = 1 THEN -1 ELSE 1
        sh == FixBits + Prec + 3
    IN IF x.m > 0 THEN RoundMag(sg, r[1], r[2], r[3])
       \* the reciprocal of the wide power, rounded once
       ELSE RoundMag(sg, Pow2(sh) \div r[1], -r[2] - sh, r[3] \/ Pow2(sh) % r[1] # 0)
  ELSE IF b.m < 0 THEN NaN
  ELSE ExpFix(FixScale(x, FixLn(b.m, b.e)))

(***************************************************************************)
(* Inputs of the engine.  The value sets are small; every value is a       *)
(* number of the arithmetic above (or undefined where the field is         *)
(* optional).                                                              *)
(***************************************************************************)
\* largest whole number of years offered as timePeriodInput / loanTermInput
MaxYears == 3
\* time periods and loan terms are offered in steps of 1 / 2^TermStep years
TermStep == 1

\* Array.prototype.push raises once the array holds MaxArrayLength entries
\* (2^32 - 1 in ECMAScript, below the 2^53 at which a counter stops
\* counting); scaled with the significand.
MaxArrayLength == Pow2(Prec - 2) - 1

Targets == {"FUTURE_VALUE", "PRINCIPAL", "ANNUAL_INTEREST_RATE", "TIME_PERIOD", "LOAN_PAYMENT"}
\* a calculationTarget outside the enumeration (reachable only by a cast)
InvalidTargets == {"MONTHLY_SAVINGS"}

\* Each set holds the values around the solvers' comparisons and the two ends
\* of the number range (the smallest positive number, the largest number).
Amounts == {Num(-3), Num(0), MinValue, Num(3), Num(10), MaxValue}
Rates == {Num(-5), Num(0), MinValue, Num(5), Num(50)}
Years ==
  {Dyadic(h, TermStep) : h \in 0..(MaxYears * Pow2(TermStep))}
    \cup {Num(-1), MinValue, Num(MaxArrayLength + 1)}
CompoundingFrequencies == {Num(0), Num(1), Num(2)}
PaymentFrequencies == {Num(0), Num(1), Num(2), Num(4)}
InflationRates == {Undefined, Num(-1), Num(0), Num(2), MaxValue}
CurrencyCodes == {"USD"}
\* customCurrencySymbol: undefined or a symbol
NoSymbol == "undefined"
CurrencySymbols == {NoSymbol}

\* the record built by handleSubmit for an investment target
InvestmentInputs ==
  [calculationTarget : (Targets \ {"LOAN_PAYMENT"}) \cup InvalidTargets,
   principalInput : Amounts, futureValueInput : Amounts,
   annualInterestRateInput : Rates, timePeriodInput : Years,
   loanAmountInput : {Undefined}, loanInterestRateInput : {Undefined},
   loanTermInput : {Undefined}, paymentFrequency : {Undefined},
   compoundingFrequency : CompoundingFrequencies,
   currencyCode : CurrencyCodes, customCurrencySymbol : CurrencySymbols,
   inflationRate : InflationRates]

\* the record built by handleSubmit for the loan target
LoanInputs ==
  [calculationTarget : {"LOAN_PAYMENT"},
   principalInput : {Undefined}, futureValueInput : {Undefined},
   annualInterestRateInput : {Undefined}, timePeriodInput : {Undefined},
   loanAmountInput : Amounts, loanInterestRateInput : Rates,
   loanTermInput : Years, paymentFrequency : PaymentFrequencies,
   compoundingFrequency : {Num(1)},
   currencyCode : CurrencyCodes, customCurrencySymbol : CurrencySymbols,
   inflationRate : {Undefined}]

\* Only the fields a solver reads are varied: an investment solver reads
\* three of the four investment fields.
Relevant(inp) ==
  CASE inp.calculationTarget = "FUTURE_VALUE" ->
         inp.futureValueInput = Num(10)
    [] inp.calculationTarget = "PRINCIPAL" ->
         inp.principalInput = Num(10) /\ inp.inflationRate = Undefined
    [] inp.calculationTarget = "ANNUAL_INTEREST_RATE" ->
         inp.annualInterestRateInput = Num(5) /\ inp.inflationRate = Undefined
    [] inp.calculationTarget = "TIME_PERIOD" ->
         inp.timePeriodInput = Num(1) /\ inp.inflationRate = Undefined
    [] inp.calculationTarget = "LOAN_PAYMENT" -> TRUE
    [] OTHER ->
         /\ inp.principalInput = Num(10) /\ inp.futureValueInput = Num(10)
         /\ inp.annualInterestRateInput = Num(5) /\ inp.timePeriodInput = Num(1)
         /\ inp.inflationRate = Undefined

Inputs == {inp \in InvestmentInputs \cup LoanInputs : Relevant(inp)}

(***************************************************************************)
(* The solvers (services/calculationService).                              *)
(***************************************************************************)
\* no precondition check failed
Passed == [passed |-> TRUE]

HasField(r, f) == f \in DOMAIN r

\* faulty variant of the checks below: the time period is examined first
FutureValueChecksTimeFirst(principal, annualInterestRate, timePeriod, compoundingFrequency, currencyCode, customCurrencySymbol, inflationRate) ==
  LET Err(msg) == [calculatedFutureValue |-> Num(0), currencyCode |-> currencyCode,
                   customCurrencySymbol |-> customCurrencySymbol, error |-> msg,
                   calculationTarget |-> "FUTURE_VALUE"]
  IN IF Le(timePeriod, Num(0)) THEN Err("Time period must be positive.")
     ELSE IF Le(principal, Num(0)) THEN Err("Principal amount must be positive.")
     ELSE IF Lt(annualInterestRate, Num(0)) THEN Err("Annual interest rate cannot be negative.")
     ELSE IF Le(compoundingFrequency, Num(0)) THEN Err("Compounding frequency must be positive.")
     ELSE IF inflationRate # Undefined /\ Lt(inflationRate, Num(0)) THEN Err("Inflation rate cannot be negative.")
     ELSE Passed

\* faulty variant of the checks below: an error result keeps the principal as
\* its value instead of 0
FutureValueChecksNotZeroed(principal, annualInterestRate, timePeriod, compoundingFrequency, currencyCode, customCurrencySymbol, inflationRate) ==
  LET Err(msg) == [calculatedFutureValue |-> principal, currencyCode |-> currencyCode,
                   customCurrencySymbol |-> customCurrencySymbol, error |-> msg,
                   calculationTarget |-> "FUTURE_VALUE"]
  IN IF Le(principal, Num(0)) THEN Err("Principal amount must be positive.")
     ELSE IF Lt(annualInterestRate, Num(0)) THEN Err("Annual interest rate cannot be negative.")
     ELSE IF Le(timePeriod, Num(0)) THEN Err("Time period must be positive.")
     ELSE IF Le(compoundingFrequency, Num(0)) THEN Err("Compounding frequency must be positive.")
     ELSE IF inflationRate # Undefined /\ Lt(inflationRate, Num(0)) THEN Err("Inflation rate cannot be negative.")
     ELSE Passed

\* faulty variant of the checks below: a missing principal is rejected
FutureValueChecksRequirePrincipal(principal, annualInterestRate, timePeriod, compoundingFrequency, currencyCode, customCurrencySymbol, inflationRate) ==
  LET Err(msg) == [calculatedFutureValue |-> Num(0), currencyCode |-> currencyCode,
                   customCurrencySymbol |-> customCurrencySymbol, error |-> msg,
                   calculationTarget |-> "FUTURE_VALUE"]
  IN IF principal = Undefined \/ Le(principal, Num(0)) THEN Err("Principal amount must be positive.")
     ELSE IF Lt(annualInterestRate, Num(0)) THEN Err("Annual interest rate cannot be negative.")
     ELSE IF Le(timePeriod, Num(0)) THEN Err("Time period must be positive.")
     ELSE IF Le(compoundingFrequency, Num(0)) THEN Err("Compounding frequency must be positive.")
     ELSE IF inflationRate # Undefined /\ Lt(inflationRate, Num(0)) THEN Err("Inflation rate cannot be negative.")
     ELSE Passed

\* the precondition checks of _calculateFutureValue
FutureValueChecks(principal, annualInterestRate, timePeriod, compoundingFrequency, currencyCode, customCurrencySymbol, inflationRate) ==
  LET Err(msg) == [calculatedFutureValue |-> Num(0), currencyCode |-> currencyCode,
                   customCurrencySymbol |-> customCurrencySymbol, error |-> msg,
                   calculationTarget |-> "FUTURE_VALUE"]
  IN IF Le(principal, Num(0)) THEN Err("Principal amount must be positive.")
     ELSE IF Lt(annualInterestRate, Num(0)) THEN Err("Annual interest rate cannot be negative.")
     ELSE IF Le(timePeriod, Num(0)) THEN Err("Time period must be positive.")
     ELSE IF Le(compoundingFrequency, Num(0)) THEN Err("Compounding frequency must be positive.")
     ELSE IF inflationRate # Undefined /\ Lt(inflationRate, Num(0)) THEN Err("Inflation rate cannot be negative.")
     ELSE Passed

\* principal * Math.pow((1 + r / n), (n * years))
CompoundedValue(principal, annualInterestRate, compoundingFrequency, years) ==
  LET r == Div(annualInterestRate, Num(100))
      n == compoundingFrequency
  IN Mul(principal, Pow(Add(Num(1), Div(r, n)), Mul(n, years)))

RealFutureValue(calculatedFutureValue, timePeriod, inflationRate) ==
  IF inflationRate # Undefined /\ Ge(inflationRate, Num(0)) /\ Gt(timePeriod, Num(0))
  THEN LET annualInflationRate == Div(inflationRate, Num(100))
       IN Div(calculatedFutureValue, Pow(Add(Num(1), annualInflationRate), timePeriod))
  ELSE Undefined

\* faulty variant of the solver below: the discount factor is compounded once a
\* year
_calculatePresentValueAnnual(futureValue, annualInterestRate, timePeriod, compoundingFrequency, currencyCode, customCurrencySymbol) ==
  LET Err(msg) == [calculatedPrincipal |-> Num(0), currencyCode |-> currencyCode,
                   customCurrencySymbol |-> customCurrencySymbol, error |-> msg,
                   calculationTarget |-> "PRINCIPAL"]
      r == Div(annualInterestRate, Num(100))
      n == compoundingFrequency
      t == timePeriod
  IN IF Le(futureValue, Num(0)) THEN Err("Future value must be positive.")
     ELSE IF Lt(annualInterestRate, Num(0)) THEN Err("Annual interest rate cannot be negative.")
     ELSE IF Le(timePeriod, Num(0)) THEN Err("Time period must be positive.")
     ELSE IF Le(compoundingFrequency, Num(0)) THEN Err("Compounding frequency must be positive.")
     ELSE [calculatedPrincipal |-> Div(futureValue, Pow(Add(Num(1), Div(r, n)), t)),
           currencyCode |-> currencyCode, customCurrencySymbol |-> customCurrencySymbol,
           calculationTarget |-> "PRINCIPAL"]

\* _calculatePresentValue
_calculatePresentValue(futureValue, annualInterestRate, timePeriod, compoundingFrequency, currencyCode, customCurrencySymbol) ==
  LET Err(msg) == [calculatedPrincipal |-> Num(0), currencyCode |-> currencyCode,
                   customCurrencySymbol |-> customCurrencySymbol, error |-> msg,
                   calculationTarget |-> "PRINCIPAL"]
      r == Div(annualInterestRate, Num(100))
      n == compoundingFrequency
      t == timePeriod
  IN IF Le(futureValue, Num(0)) THEN Err("Future value must be positive.")
     ELSE IF Lt(annualInterestRate, Num(0)) THEN Err("Annual interest rate cannot be negative.")
     ELSE IF Le(timePeriod, Num(0)) THEN Err("Time period must be positive.")
     ELSE IF Le(compoundingFrequency, Num(0)) THEN Err("Compounding frequency must be positive.")
     ELSE [calculatedPrincipal |-> Div(futureValue, Pow(Add(Num(1), Div(r, n)), Mul(n, t))),
           currencyCode |-> currencyCode, customCurrencySymbol |-> customCurrencySymbol,
           calculationTarget |-> "PRINCIPAL"]

\* faulty variant of the solver below: a future value equal to the principal is
\* rejected too
_calculateAnnualInterestRateStrict(principal, futureValue, timePeriod, compoundingFrequency, currencyCode, customCurrencySymbol) ==
  LET Err(msg) == [calculatedAnnualInterestRate |-> Num(0), currencyCode |-> currencyCode,
                   customCurrencySymbol |-> customCurrencySymbol, error |-> msg,
                   calculationTarget |-> "ANNUAL_INTEREST_RATE"]
      n == compoundingFrequency
      t == timePeriod
  IN IF Le(principal, Num(0)) THEN Err("Principal amount must be positive.")
     ELSE IF Le(futureValue, Num(0)) THEN Err("Future value must be positive.")
     ELSE IF Le(timePeriod, Num(0)) THEN Err("Time period must be positive.")
     ELSE IF Le(compoundingFrequency, Num(0)) THEN Err("Compounding frequency must be positive.")
     ELSE IF Le(futureValue, principal) THEN Err("Future value must be greater than or equal to principal for a positive interest rate.")
     ELSE [calculatedAnnualInterestRate |->
             Mul(Mul(n, Sub(Pow(Div(futureValue, principal), Div(Num(1), Mul(n, t))), Num(1))), Num(100)),
           currencyCode |-> currencyCode, customCurrencySymbol |-> customCurrencySymbol,
           calculationTarget |-> "ANNUAL_INTEREST_RATE"]

\* _calculateAnnualInterestRate
_calculateAnnualInterestRate(principal, futureValue, timePeriod, compoundingFrequency, currencyCode, customCurrencySymbol) ==
  LET Err(msg) == [calculatedAnnualInterestRate |-> Num(0), currencyCode |-> currencyCode,
                   customCurrencySymbol |-> customCurrencySymbol, error |-> msg,
                   calculationTarget |-> "ANNUAL_INTEREST_RATE"]
      n == compoundingFrequency
      t == timePeriod
  IN IF Le(principal, Num(0)) THEN Err("Principal amount must be positive.")
     ELSE IF Le(futureValue, Num(0)) THEN Err("Future value must be positive.")
     ELSE IF Le(timePeriod, Num(0)) THEN Err("Time period must be positive.")
     ELSE IF Le(compoundingFrequency, Num(0)) THEN Err("Compounding frequency must be positive.")
     ELSE IF Lt(futureValue, principal) THEN Err("Future value must be greater than or equal to principal for a positive interest rate.")
     ELSE [calculatedAnnualInterestRate |->
             Mul(Mul(n, Sub(Pow(Div(futureValue, principal), Div(Num(1), Mul(n, t))), Num(1))), Num(100)),
           currencyCode |-> currencyCode, customCurrencySymbol |-> customCurrencySymbol,
           calculationTarget |-> "ANNUAL_INTEREST_RATE"]

\* faulty variant of the solver below: a rate of 0 passes the rate check
_calculateTimePeriodNonNegativeRate(principal, futureValue, annualInterestRate, compoundingFrequency, currencyCode, customCurrencySymbol) ==
  LET Err(msg) == [calculatedTimePeriod |-> Num(0), currencyCode |-> currencyCode,
                   customCurrencySymbol |-> customCurrencySymbol, error |-> msg,
                   calculationTarget |-> "TIME_PERIOD"]
      r == Div(annualInterestRate, Num(100))
      n == compoundingFrequency
  IN IF Le(principal, Num(0)) THEN Err("Principal amount must be positive.")
     ELSE IF Le(futureValue, Num(0)) THEN Err("Future value must be positive.")
     ELSE IF Lt(annualInterestRate, Num(0)) THEN Err("Annual interest rate must be positive for time calculation.")
     ELSE IF Le(compoundingFrequency, Num(0)) THEN Err("Compounding frequency must be positive.")
     ELSE IF Lt(futureValue, principal) THEN Err("Future value must be greater than or equal to principal for a positive time period.")
     ELSE [calculatedTimePeriod |->
             Div(Log(Div(futureValue, principal)), Mul(n, Log(Add(Num(1), Div(r, n))))),
           currencyCode |-> currencyCode, customCurrencySymbol |-> customCurrencySymbol,
           calculationTarget |-> "TIME_PERIOD"]

\* _calculateTimePeriod
_calculateTimePeriod(principal, futureValue, annualInterestRate, compoundingFrequency, currencyCode, customCurrencySymbol) ==
  LET Err(msg) == [calculatedTimePeriod |-> Num(0), currencyCode |-> currencyCode,
                   customCurrencySymbol |-> customCurrencySymbol, error |-> msg,
                   calculationTarget |-> "TIME_PERIOD"]
      r == Div(annualInterestRate, Num(100))
      n == compoundingFrequency
  IN IF Le(principal, Num(0)) THEN Err("Principal amount must be positive.")
     ELSE IF Le(futureValue, Num(0)) THEN Err("Future value must be positive.")
     ELSE IF Le(annualInterestRate, Num(0)) THEN Err("Annual interest rate must be positive for time calculation.")
     ELSE IF Le(compoundingFrequency, Num(0)) THEN Err("Compounding frequency must be positive.")
     ELSE IF Lt(futureValue, principal) THEN Err("Future value must be greater than or equal to principal for a positive time period.")
     ELSE [calculatedTimePeriod |->
             Div(Log(Div(futureValue, principal)), Mul(n, Log(Add(Num(1), Div(r, n))))),
           currencyCode |-> currencyCode, customCurrencySymbol |-> customCurrencySymbol,
           calculationTarget |-> "TIME_PERIOD"]

\* faulty variant of the checks below: a rate of 0 is rejected too
LoanPaymentChecksPositiveRate(loanAmount, loanInterestRate, loanTerm, currencyCode, customCurrencySymbol) ==
  LET Err(msg) == [calculatedMonthlyPayment |-> Num(0), calculatedTotalInterestPaid |-> Num(0),
                   calculatedTotalAmountPaid |-> Num(0), currencyCode |-> currencyCode,
                   customCurrencySymbol |-> customCurrencySymbol, error |-> msg,
                   calculationTarget |-> "LOAN_PAYMENT"]
  IN IF Le(loanAmount, Num(0)) THEN Err("Loan amount must be positive.")
     ELSE IF Le(loanInterestRate, Num(0)) THEN Err("Loan interest rate cannot be negative.")
     ELSE IF Le(loanTerm, Num(0)) THEN Err("Loan term must be positive.")
     ELSE Passed

\* the precondition checks of _calculateLoanPayment
LoanPaymentChecks(loanAmount, loanInterestRate, loanTerm, currencyCode, customCurrencySymbol) ==
  LET Err(msg) == [calculatedMonthlyPayment |-> Num(0), calculatedTotalInterestPaid |-> Num(0),
                   calculatedTotalAmountPaid |-> Num(0), currencyCode |-> currencyCode,
                   customCurrencySymbol |-> customCurrencySymbol, error |-> msg,
                   calculationTarget |-> "LOAN_PAYMENT"]
  IN IF Le(loanAmount, Num(0)) THEN Err("Loan amount must be positive.")
     ELSE IF Lt(loanInterestRate, Num(0)) THEN Err("Loan interest rate cannot be negative.")
     ELSE IF Le(loanTerm, Num(0)) THEN Err("Loan term must be positive.")
     ELSE Passed

PeriodicInterestRate(loanInterestRate, paymentFrequency) ==
  Div(Div(loanInterestRate, Num(100)), paymentFrequency)

NumberOfPayments(loanTerm, paymentFrequency) == Mul(loanTerm, paymentFrequency)

\* the closed-form payment computed before the schedule is generated
ClosedFormPayment(loanAmount, loanInterestRate, loanTerm, paymentFrequency) ==
  LET periodicInterestRate == PeriodicInterestRate(loanInterestRate, paymentFrequency)
      numberOfPayments == NumberOfPayments(loanTerm, paymentFrequency)
  IN IF StrictEq(periodicInterestRate, Num(0))
     THEN Div(loanAmount, numberOfPayments)
     ELSE Div(Mul(loanAmount, Mul(periodicInterestRate,
                                  Pow(Add(Num(1), periodicInterestRate), numberOfPayments))),
              Sub(Pow(Add(Num(1), periodicInterestRate), numberOfPayments), Num(1)))

\* amortizationSchedule.reduce((sum, entry) => sum + entry.interestPaid + entry.principalPaid, 0)
RECURSIVE ReduceTotal(_, _, _)
ReduceTotal(schedule, j, sum) ==
  IF j > Len(schedule) THEN sum
  ELSE ReduceTotal(schedule, j + 1, Add(Add(sum, schedule[j].interestPaid), schedule[j].principalPaid))

(***************************************************************************)
(* State: App's calculationResult and currentCalculatedInputs, and the     *)
(* position and locals of a running performFinancialCalculation call.      *)
(***************************************************************************)
VARIABLES
  pc,                         \* "entry", "growth_loop", "loan_loop", "returned", "thrown"
  inputs,                     \* the argument of the call
  calculationResult,          \* App state: the last result returned
  year, growthData,           \* locals of _calculateFutureValue
  i, currentBalance, calculatedPeriodicPayment, amortizationSchedule,
                              \* locals of _calculateLoanPayment
  previous,                   \* history: the calls completed before the running
                              \* one, as records [inputs, result], oldest first
  form, errors,               \* InvestmentForm state: the fields and the errors set
                              \* by validate (Null while no form is shown)
  history, future,            \* InvestmentForm state: the undo and redo stacks
  savedLoanScenarios, selectedScenarioForComparison,
  savedInvestmentScenarios, selectedInvestmentForComparison
                              \* App state: the saved scenarios and the ids
                              \* selected for comparison

\* the comparison store of App and the stacks of the form
store == <<savedLoanScenarios, selectedScenarioForComparison,
           savedInvestmentScenarios, selectedInvestmentForComparison>>
stacks == <<history, future>>

vars == <<pc, inputs, calculationResult, year, growthData,
          i, currentBalance, calculatedPeriodicPayment, amortizationSchedule, previous,
          form, errors, store, stacks>>

\* useState([]) of the four lists of App, and of the two stacks of the form
\* before its first effect has run
EmptyLists ==
  /\ savedLoanScenarios = <<>>
  /\ selectedScenarioForComparison = <<>>
  /\ savedInvestmentScenarios = <<>>
  /\ selectedInvestmentForComparison = <<>>
  /\ history = <<>>
  /\ future = <<>>

Null == [null |-> TRUE]

\* handleCalculate(inputs) has just called performFinancialCalculation(inputs)
Init ==
  /\ EmptyLists
  /\ pc = "entry"
  /\ inputs \in Inputs
  /\ calculationResult = Null
  /\ year = Undefined
  /\ growthData = <<>>
  /\ i = Undefined
  /\ currentBalance = Undefined
  /\ calculatedPeriodicPayment = Undefined
  /\ amortizationSchedule = <<>>
  /\ previous = <<>>
  /\ form = Null
  /\ errors = {}

\* faulty variant of the stamp below: an error result is left without its target
StampOnSuccessOnly(result, calculationTarget) ==
  IF "error" \in DOMAIN result
  THEN [result EXCEPT !.calculationTarget = "undefined"]
  ELSE [result EXCEPT !.calculationTarget = calculationTarget]

\* result.calculationTarget = calculationTarget
Stamp(result, calculationTarget) == [result EXCEPT !.calculationTarget = calculationTarget]

NoLocals ==
  /\ year' = Undefined
  /\ growthData' = <<>>
  /\ i' = Undefined
  /\ currentBalance' = Undefined
  /\ calculatedPeriodicPayment' = Undefined
  /\ amortizationSchedule' = <<>>

\* performFinancialCalculation returns result to handleCalculate
Return(result) ==
  /\ calculationResult' = Stamp(result, inputs.calculationTarget)
  /\ pc' = "returned"
  /\ NoLocals
  /\ UNCHANGED <<store, stacks, form, errors, previous, inputs>>

\* faulty variant of the call below: the series is an array kept between calls,
\* still holding the entries of the last result
CallFutureValueSharedSeries ==
  /\ pc = "entry"
  /\ inputs.calculationTarget = "FUTURE_VALUE"
  /\ LET checks == FutureValueChecks(inputs.principalInput, inputs.annualInterestRateInput,
                                     inputs.timePeriodInput, inputs.compoundingFrequency,
                                     inputs.currencyCode, inputs.customCurrencySymbol, inputs.inflationRate)
     IN IF checks # Passed
        THEN Return(checks)
        ELSE /\ pc' = "growth_loop"
             /\ year' = Num(1)
             /\ growthData' = IF "growthData" \in DOMAIN calculationResult
                              THEN calculationResult.growthData ELSE <<>>
             /\ UNCHANGED <<store, stacks, form, errors, previous, inputs, calculationResult, i, currentBalance,
                            calculatedPeriodicPayment, amortizationSchedule>>

\* case CalculationTarget.FUTURE_VALUE, up to the growth loop
CallFutureValue ==
  /\ pc = "entry"
  /\ inputs.calculationTarget = "FUTURE_VALUE"
  /\ LET checks == FutureValueChecks(inputs.principalInput, inputs.annualInterestRateInput,
                                     inputs.timePeriodInput, inputs.compoundingFrequency,
                                     inputs.currencyCode, inputs.customCurrencySymbol, inputs.inflationRate)
     IN IF checks # Passed
        THEN Return(checks)
        ELSE /\ pc' = "growth_loop"
             /\ year' = Num(1)
             /\ growthData' = <<>>
             /\ UNCHANGED <<store, stacks, form, errors, previous, inputs, calculationResult, i, currentBalance,
                            calculatedPeriodicPayment, amortizationSchedule>>

\* faulty variant of the iteration below: each value is compounded from the
\* value stored for the year before
GrowthLoopStepFromPrevious ==
  /\ pc = "growth_loop"
  /\ Le(year, inputs.timePeriodInput)
  /\ IF Len(growthData) >= MaxArrayLength
     THEN /\ pc' = "thrown"
          /\ NoLocals
          /\ UNCHANGED <<store, stacks, form, errors, previous, inputs, calculationResult>>
     ELSE /\ growthData' = Append(growthData,
               [year |-> year,
                value |-> CompoundedValue(IF growthData = <<>> THEN inputs.principalInput
                                          ELSE growthData[Len(growthData)].value,
                                          inputs.annualInterestRateInput,
                                          inputs.compoundingFrequency, Num(1))])
          /\ year' = Add(year, Num(1))
          /\ UNCHANGED <<pc, store, stacks, form, errors, previous, inputs, calculationResult, i, currentBalance,
                         calculatedPeriodicPayment, amortizationSchedule>>

\* one iteration of for (let year = 1; year <= t; year++)
GrowthLoopStep ==
  /\ pc = "growth_loop"
  /\ Le(year, inputs.timePeriodInput)
  /\ IF Len(growthData) >= MaxArrayLength
     THEN /\ pc' = "thrown"
          /\ NoLocals
          /\ UNCHANGED <<store, stacks, form, errors, previous, inputs, calculationResult>>
     ELSE /\ growthData' = Append(growthData,
               [year |-> year,
                value |-> CompoundedValue(inputs.principalInput, inputs.annualInterestRateInput,
                                          inputs.compoundingFrequency, year)])
          /\ year' = Add(year, Num(1))
          /\ UNCHANGED <<pc, store, stacks, form, errors, previous, inputs, calculationResult, i, currentBalance,
                         calculatedPeriodicPayment, amortizationSchedule>>

\* faulty variant of the exit below: inflation deflates at the compounding
\* frequency of the investment
GrowthLoopExitDeflatedAtFrequency ==
  /\ pc = "growth_loop"
  /\ ~Le(year, inputs.timePeriodInput)
  /\ LET calculatedFutureValue ==
           CompoundedValue(inputs.principalInput, inputs.annualInterestRateInput,
                           inputs.compoundingFrequency, inputs.timePeriodInput)
     IN Return([calculatedFutureValue |-> calculatedFutureValue,
                currencyCode |-> inputs.currencyCode,
                customCurrencySymbol |-> inputs.customCurrencySymbol,
                growthData |-> growthData,
                realFutureValue |->
                  IF inputs.inflationRate = Undefined THEN Undefined
                  ELSE Div(calculatedFutureValue,
                           CompoundedValue(Num(1), inputs.inflationRate,
                                           inputs.compoundingFrequency, inputs.timePeriodInput)),
                calculationTarget |-> "FUTURE_VALUE"])

\* the loop condition fails: _calculateFutureValue returns
GrowthLoopExit ==
  /\ pc = "growth_loop"
  /\ ~Le(year, inputs.timePeriodInput)
  /\ LET calculatedFutureValue ==
           CompoundedValue(inputs.principalInput, inputs.annualInterestRateInput,
                           inputs.compoundingFrequency, inputs.timePeriodInput)
     IN Return([calculatedFutureValue |-> calculatedFutureValue,
                currencyCode |-> inputs.currencyCode,
                customCurrencySymbol |-> inputs.customCurrencySymbol,
                growthData |-> growthData,
                realFutureValue |-> RealFutureValue(calculatedFutureValue, inputs.timePeriodInput,
                                                    inputs.inflationRate),
                calculationTarget |-> "FUTURE_VALUE"])

\* case CalculationTarget.PRINCIPAL
CallPresentValue ==
  /\ pc = "entry"
  /\ inputs.calculationTarget = "PRINCIPAL"
  /\ Return(_calculatePresentValue(inputs.futureValueInput, inputs.annualInterestRateInput,
                                   inputs.timePeriodInput, inputs.compoundingFrequency,
                                   inputs.currencyCode, inputs.customCurrencySymbol))

\* case CalculationTarget.ANNUAL_INTEREST_RATE
CallAnnualInterestRate ==
  /\ pc = "entry"
  /\ inputs.calculationTarget = "ANNUAL_INTEREST_RATE"
  /\ Return(_calculateAnnualInterestRate(inputs.principalInput, inputs.futureValueInput,
                                         inputs.timePeriodInput, inputs.compoundingFrequency,
                                         inputs.currencyCode, inputs.customCurrencySymbol))

\* case CalculationTarget.TIME_PERIOD
CallTimePeriod ==
  /\ pc = "entry"
  /\ inputs.calculationTarget = "TIME_PERIOD"
  /\ Return(_calculateTimePeriod(inputs.principalInput, inputs.futureValueInput,
                                 inputs.annualInterestRateInput, inputs.compoundingFrequency,
                                 inputs.currencyCode, inputs.customCurrencySymbol))

\* case CalculationTarget.LOAN_PAYMENT, up to the amortization loop
\* faulty variant of the loan case below: the payment is computed at the
\* compounding frequency
CallLoanPaymentAtCompoundingFrequency ==
  /\ pc = "entry"
  /\ inputs.calculationTarget = "LOAN_PAYMENT"
  /\ LET checks == LoanPaymentChecks(inputs.loanAmountInput, inputs.loanInterestRateInput,
                                     inputs.loanTermInput, inputs.currencyCode, inputs.customCurrencySymbol)
     IN IF checks # Passed
        THEN Return(checks)
        ELSE /\ pc' = "loan_loop"
             /\ calculatedPeriodicPayment' =
                  ClosedFormPayment(inputs.loanAmountInput, inputs.loanInterestRateInput,
                                    inputs.loanTermInput, inputs.compoundingFrequency)
             /\ amortizationSchedule' = <<>>
             /\ currentBalance' = inputs.loanAmountInput
             /\ i' = Num(1)
             /\ UNCHANGED <<store, stacks, form, errors, previous, inputs, calculationResult, year, growthData>>

\* case CalculationTarget.LOAN_PAYMENT
CallLoanPayment ==
  /\ pc = "entry"
  /\ inputs.calculationTarget = "LOAN_PAYMENT"
  /\ LET checks == LoanPaymentChecks(inputs.loanAmountInput, inputs.loanInterestRateInput,
                                     inputs.loanTermInput, inputs.currencyCode, inputs.customCurrencySymbol)
     IN IF checks # Passed
        THEN Return(checks)
        ELSE /\ pc' = "loan_loop"
             /\ calculatedPeriodicPayment' =
                  ClosedFormPayment(inputs.loanAmountInput, inputs.loanInterestRateInput,
                                    inputs.loanTermInput, inputs.paymentFrequency)
             /\ amortizationSchedule' = <<>>
             /\ currentBalance' = inputs.loanAmountInput
             /\ i' = Num(1)
             /\ UNCHANGED <<store, stacks, form, errors, previous, inputs, calculationResult, year, growthData>>

\* faulty variant of the loop body below: startingBalance is the balance before
\* the payment plus the principal paid
LoanIterationStartPlusPrincipal(balance, payment, periodicInterestRate, numberOfPayments, paymentNumber) ==
  LET interestPayment == Mul(balance, periodicInterestRate)
      last == StrictEq(paymentNumber, numberOfPayments)
      principalPayment == IF last THEN balance ELSE Sub(payment, interestPayment)
      newBalance == Sub(balance, principalPayment)
  IN [entry |-> [paymentNumber |-> paymentNumber,
                 startingBalance |-> Add(balance, principalPayment),
                 interestPaid |-> interestPayment,
                 principalPaid |-> principalPayment,
                 endingBalance |-> Max(Num(0), newBalance)],
      balance |-> newBalance,
      payment |-> IF last THEN Add(balance, interestPayment) ELSE payment]

\* the body of the amortization loop for payment number i: the entry pushed,
\* the balance and the periodic payment after it
LoanIteration(balance, payment, periodicInterestRate, numberOfPayments, paymentNumber) ==
  LET interestPayment == Mul(balance, periodicInterestRate)
      last == StrictEq(paymentNumber, numberOfPayments)
      principalPayment == IF last THEN balance ELSE Sub(payment, interestPayment)
      newBalance == Sub(balance, principalPayment)
  IN [entry |-> [paymentNumber |-> paymentNumber,
                 startingBalance |-> Add(newBalance, principalPayment),
                 interestPaid |-> interestPayment,
                 principalPaid |-> principalPayment,
                 endingBalance |-> Max(Num(0), newBalance)],
      balance |-> newBalance,
      payment |-> IF last THEN Add(balance, interestPayment) ELSE payment]

\* one iteration of for (let i = 1; i <= numberOfPayments; i++)
LoanLoopStep ==
  /\ pc = "loan_loop"
  /\ Le(i, NumberOfPayments(inputs.loanTermInput, inputs.paymentFrequency))
  /\ IF Len(amortizationSchedule) >= MaxArrayLength
     THEN /\ pc' = "thrown"
          /\ NoLocals
          /\ UNCHANGED <<store, stacks, form, errors, previous, inputs, calculationResult>>
     ELSE LET it == LoanIteration(currentBalance, calculatedPeriodicPayment,
                      PeriodicInterestRate(inputs.loanInterestRateInput, inputs.paymentFrequency),
                      NumberOfPayments(inputs.loanTermInput, inputs.paymentFrequency), i)
          IN /\ amortizationSchedule' = Append(amortizationSchedule, it.entry)
             /\ currentBalance' = it.balance
             /\ calculatedPeriodicPayment' = it.payment
             /\ i' = Add(i, Num(1))
             /\ UNCHANGED <<pc, store, stacks, form, errors, previous, inputs, calculationResult, year, growthData>>

\* faulty variant of the exit below: the totals are payment x N
LoanLoopExitPaymentTimesN ==
  /\ pc = "loan_loop"
  /\ ~Le(i, NumberOfPayments(inputs.loanTermInput, inputs.paymentFrequency))
  /\ LET calculatedTotalAmountPaid ==
           Mul(calculatedPeriodicPayment,
               NumberOfPayments(inputs.loanTermInput, inputs.paymentFrequency))
     IN Return([calculatedMonthlyPayment |-> calculatedPeriodicPayment,
                calculatedTotalInterestPaid |-> Sub(calculatedTotalAmountPaid, inputs.loanAmountInput),
                calculatedTotalAmountPaid |-> calculatedTotalAmountPaid,
                currencyCode |-> inputs.currencyCode,
                customCurrencySymbol |-> inputs.customCurrencySymbol,
                calculationTarget |-> "LOAN_PAYMENT",
                amortizationSchedule |-> amortizationSchedule])

\* the loop condition fails: the totals are recomputed and the solver returns
LoanLoopExit ==
  /\ pc = "loan_loop"
  /\ ~Le(i, NumberOfPayments(inputs.loanTermInput, inputs.paymentFrequency))
  /\ LET calculatedTotalAmountPaid == ReduceTotal(amortizationSchedule, 1, Num(0))
     IN Return([calculatedMonthlyPayment |-> calculatedPeriodicPayment,
                calculatedTotalInterestPaid |-> Sub(calculatedTotalAmountPaid, inputs.loanAmountInput),
                calculatedTotalAmountPaid |-> calculatedTotalAmountPaid,
                currencyCode |-> inputs.currencyCode,
                customCurrencySymbol |-> inputs.customCurrencySymbol,
                calculationTarget |-> "LOAN_PAYMENT",
                amortizationSchedule |-> amortizationSchedule])

\* faulty variant of the default branch below: the result carries a zeroed value
CallInvalidTargetZeroedValue ==
  /\ pc = "entry"
  /\ inputs.calculationTarget \notin Targets
  /\ Return([calculatedFutureValue |-> Num(0),
             currencyCode |-> inputs.currencyCode, customCurrencySymbol |-> inputs.customCurrencySymbol,
             error |-> "Invalid calculation target.", calculationTarget |-> inputs.calculationTarget])

\* default: of the switch
CallInvalidTarget ==
  /\ pc = "entry"
  /\ inputs.calculationTarget \notin Targets
  /\ Return([currencyCode |-> inputs.currencyCode, customCurrencySymbol |-> inputs.customCurrencySymbol,
             error |-> "Invalid calculation target.", calculationTarget |-> inputs.calculationTarget])

Next ==
  \/ CallFutureValue
  \/ GrowthLoopStep
  \/ GrowthLoopExit
  \/ CallPresentValue
  \/ CallAnnualInterestRate
  \/ CallTimePeriod
  \/ CallLoanPayment
  \/ LoanLoopStep
  \/ LoanLoopExit
  \/ CallInvalidTarget

Spec == Init /\ [][Next]_vars

(***************************************************************************)
(* Repeated calls: the form submits again and handleCalculate calls the    *)
(* engine with the new inputs.  The user may resubmit the same inputs,     *)
(* inputs submitted earlier, another calculation, or feed a computed       *)
(* future value back in to solve for the principal.                        *)
(***************************************************************************)
\* number of calls in a behaviour of repeated calls
MaxCalls == 3

\* valid FUTURE_VALUE inputs (no inflation rate), the first call of a
\* behaviour of repeated calls
ValidFutureValueInputs ==
  {inp \in Inputs :
     /\ inp.calculationTarget = "FUTURE_VALUE"
     /\ Gt(inp.principalInput, Num(0))
     /\ Ge(inp.annualInterestRateInput, Num(0))
     /\ Gt(inp.timePeriodInput, Num(0))
     /\ Gt(inp.compoundingFrequency, Num(0))
     /\ inp.inflationRate = Undefined}

\* other first calls: one loan, and one call for each of the other targets
OtherInputs ==
  [calculationTarget : {"LOAN_PAYMENT"},
   principalInput : {Undefined}, futureValueInput : {Undefined},
   annualInterestRateInput : {Undefined}, timePeriodInput : {Undefined},
   loanAmountInput : {Num(10)}, loanInterestRateInput : {Num(50)},
   loanTermInput : {Num(1)}, paymentFrequency : {Num(2)},
   compoundingFrequency : {Num(1)},
   currencyCode : CurrencyCodes, customCurrencySymbol : CurrencySymbols,
   inflationRate : {Undefined}]
  \cup
  [calculationTarget : (Targets \ {"FUTURE_VALUE", "LOAN_PAYMENT"}) \cup InvalidTargets,
   principalInput : {Num(10)}, futureValueInput : {Num(10)},
   annualInterestRateInput : {Num(5)}, timePeriodInput : {Num(1)},
   loanAmountInput : {Undefined}, loanInterestRateInput : {Undefined},
   loanTermInput : {Undefined}, paymentFrequency : {Undefined},
   compoundingFrequency : {Num(1)},
   currencyCode : CurrencyCodes, customCurrencySymbol : CurrencySymbols,
   inflationRate : {Undefined}]

\* the calculation made in between: the loan
InBetweenInputs == {inp \in OtherInputs : inp.calculationTarget = "LOAN_PAYMENT"}

CallsInit ==
  /\ EmptyLists
  /\ pc = "entry"
  /\ inputs \in ValidFutureValueInputs \cup OtherInputs
  /\ calculationResult = Null
  /\ year = Undefined
  /\ growthData = <<>>
  /\ i = Undefined
  /\ currentBalance = Undefined
  /\ calculatedPeriodicPayment = Undefined
  /\ amortizationSchedule = <<>>
  /\ previous = <<>>
  /\ form = Null
  /\ errors = {}

\* the inputs for solving the principal back from a computed future value
RoundTripInputs ==
  IF inputs.calculationTarget = "FUTURE_VALUE" /\ ~HasField(calculationResult, "error")
  THEN {[inputs EXCEPT !.calculationTarget = "PRINCIPAL",
                       !.futureValueInput = calculationResult.calculatedFutureValue]}
  ELSE {}

\* handleCalculate is invoked again
CallAgain ==
  /\ pc = "returned"
  /\ Len(previous) < MaxCalls - 1
  /\ previous' = Append(previous, [inputs |-> inputs, result |-> calculationResult])
  /\ inputs' \in {inputs} \cup {previous[j].inputs : j \in 1..Len(previous)}
                  \cup RoundTripInputs \cup InBetweenInputs
  /\ pc' = "entry"
  /\ UNCHANGED <<store, stacks, form, errors, calculationResult, year, growthData, i, currentBalance,
                 calculatedPeriodicPayment, amortizationSchedule>>

CallsNext ==
  \/ Next
  \/ CallAgain

CallsSpec == CallsInit /\ [][CallsNext]_vars

(***************************************************************************)
(* Vocabulary of the properties.                                           *)
(***************************************************************************)
Returned == pc = "returned"
HasError == HasField(calculationResult, "error")
IsTarget(t) == inputs.calculationTarget = t

\* the loan solver's precondition checks pass
LoanPreconditions ==
  /\ IsTarget("LOAN_PAYMENT")
  /\ Gt(inputs.loanAmountInput, Num(0))
  /\ Ge(inputs.loanInterestRateInput, Num(0))
  /\ Gt(inputs.loanTermInput, Num(0))

\* a LOAN_PAYMENT call with passing preconditions has returned its result
LoanReturned ==
  /\ Returned
  /\ LoanPreconditions
  /\ HasField(calculationResult, "amortizationSchedule")

Schedule == calculationResult.amortizationSchedule
LastEntry == Schedule[Len(Schedule)]
\* N = loanTerm x paymentFrequency of the inputs
InputN == Mul(inputs.loanTermInput, inputs.paymentFrequency)
WholeN == IsInteger(InputN) /\ Gt(InputN, Num(0))

\* sum of field f over the first j entries of schedule s, left to right
RECURSIVE SumField(_, _, _)
SumField(s, f, j) == IF j = 0 THEN Num(0) ELSE Add(SumField(s, f, j - 1), s[j][f])

\* sum of (interestPaid + principalPaid) over the first j entries, left to right
RECURSIVE SumPayments(_, _)
SumPayments(s, j) ==
  IF j = 0 THEN Num(0)
  ELSE Add(Add(SumPayments(s, j - 1), s[j].interestPaid), s[j].principalPaid)

NumericFields == {"calculatedFutureValue", "calculatedPrincipal", "calculatedAnnualInterestRate",
                  "calculatedTimePeriod", "calculatedMonthlyPayment",
                  "calculatedTotalInterestPaid", "calculatedTotalAmountPaid"}
SeriesFields == {"growthData", "realFutureValue", "amortizationSchedule"}

(***************************************************************************)
(* C1.  For every LOAN_PAYMENT input that passes the precondition checks,  *)
(* the returned schedule is non-empty and its last endingBalance is 0.     *)
(* Stated as claimed; the code violates it (loanTerm x paymentFrequency    *)
(* not a whole number: the final-payment correction never fires).          *)
(***************************************************************************)
C1_FinalBalanceZero ==
  LoanReturned => Len(Schedule) > 0 /\ LastEntry.endingBalance = Num(0)

(***************************************************************************)
(* C2.  For every LOAN_PAYMENT input that passes the precondition checks,  *)
(* the schedule has exactly N = loanTerm x paymentFrequency entries,       *)
(* numbered 1, 2, ..., N in that order.  Stated as claimed.                *)
(***************************************************************************)
C2_ExactlyNEntries ==
  LoanReturned =>
    /\ Num(Len(Schedule)) = InputN
    /\ \A j \in 1..Len(Schedule) : Schedule[j].paymentNumber = Num(j)

(***************************************************************************)
(* C3.  As claimed: calculatedTotalAmountPaid is the sum over the entries  *)
(* of interestPaid + principalPaid, and sum(interestPaid) +                *)
(* sum(principalPaid) equals loanAmount + calculatedTotalInterestPaid.     *)
(***************************************************************************)
C3_RegroupedTotals ==
  LoanReturned =>
    /\ calculationResult.calculatedTotalAmountPaid = SumPayments(Schedule, Len(Schedule))
    /\ Add(SumField(Schedule, "interestPaid", Len(Schedule)),
           SumField(Schedule, "principalPaid", Len(Schedule)))
         = Add(inputs.loanAmountInput, calculationResult.calculatedTotalInterestPaid)

(***************************************************************************)
(* C3, amended.  calculatedTotalAmountPaid is the left-to-right sum over   *)
(* the entries of interestPaid + principalPaid (not payment x N), and      *)
(* calculatedTotalInterestPaid is calculatedTotalAmountPaid - loanAmount.  *)
(***************************************************************************)
C3_TotalsFromSchedule ==
  LoanReturned =>
    /\ calculationResult.calculatedTotalAmountPaid = SumPayments(Schedule, Len(Schedule))
    /\ calculationResult.calculatedTotalInterestPaid =
         Sub(SumPayments(Schedule, Len(Schedule)), inputs.loanAmountInput)

\* a returned schedule whose corrected final payment makes payment x N differ
\* from the sum over the entries
C3_Witness ==
  /\ LoanReturned
  /\ Len(Schedule) >= 2
  /\ WholeN
  /\ IsFin(calculationResult.calculatedTotalAmountPaid)
  /\ calculationResult.calculatedTotalAmountPaid
       # Mul(ClosedFormPayment(inputs.loanAmountInput, inputs.loanInterestRateInput,
                              inputs.loanTermInput, inputs.paymentFrequency), InputN)

(***************************************************************************)
(* C4.  Every result fully succeeds or fully fails: with an error, every   *)
(* numeric field the result carries is 0 and growthData, realFutureValue   *)
(* and amortizationSchedule are absent; without an error, the output       *)
(* fields of the selected target are present and defined.  principal = 0,  *)
(* timePeriod = 0, compoundingFrequency = 0 or a negative rate for         *)
(* FUTURE_VALUE give an error with calculatedFutureValue = 0.              *)
(***************************************************************************)
TargetFields(t) ==
  CASE t = "FUTURE_VALUE" -> {"calculatedFutureValue", "growthData"}
    [] t = "PRINCIPAL" -> {"calculatedPrincipal"}
    [] t = "ANNUAL_INTEREST_RATE" -> {"calculatedAnnualInterestRate"}
    [] t = "TIME_PERIOD" -> {"calculatedTimePeriod"}
    [] t = "LOAN_PAYMENT" -> {"calculatedMonthlyPayment", "calculatedTotalInterestPaid",
                              "calculatedTotalAmountPaid", "amortizationSchedule"}
    [] OTHER -> {}

C4_SucceedsOrFails ==
  Returned =>
    /\ HasError =>
         /\ \A f \in NumericFields \cap DOMAIN calculationResult : calculationResult[f] = Num(0)
         /\ SeriesFields \cap DOMAIN calculationResult = {}
    /\ ~HasError =>
         /\ IsTarget(calculationResult.calculationTarget)
         /\ \A f \in TargetFields(inputs.calculationTarget) :
              /\ HasField(calculationResult, f)
              /\ f \in NumericFields => calculationResult[f] # Undefined
         /\ IsTarget("FUTURE_VALUE") /\ inputs.inflationRate # Undefined =>
              HasField(calculationResult, "realFutureValue")
              /\ calculationResult.realFutureValue # Undefined
    /\ ( /\ IsTarget("FUTURE_VALUE")
         /\ \/ inputs.principalInput = Num(0)
            \/ inputs.timePeriodInput = Num(0)
            \/ inputs.compoundingFrequency = Num(0)
            \/ Lt(inputs.annualInterestRateInput, Num(0)) )
       => HasError /\ calculationResult.calculatedFutureValue = Num(0)

\* a FUTURE_VALUE call with a positive principal failed on a time period of 0
\* and returned a zeroed value
C4_Witness ==
  /\ Returned
  /\ IsTarget("FUTURE_VALUE")
  /\ HasError
  /\ Gt(inputs.principalInput, Num(0))
  /\ inputs.timePeriodInput = Num(0)
  /\ calculationResult.calculatedFutureValue = Num(0)

(***************************************************************************)
(* C5.  Each solver evaluates its checks in a fixed order and returns the  *)
(* error of the first failing one; for FUTURE_VALUE: principal <= 0, rate  *)
(* < 0, time period <= 0, compounding frequency <= 0, inflation rate       *)
(* supplied and < 0.                                                       *)
(***************************************************************************)
\* the checks of the selected solver, in order, as <<fails, message>>
ChecksInOrder ==
  LET zero == Num(0)
      principal == <<Le(inputs.principalInput, zero), "Principal amount must be positive.">>
      futureValue == <<Le(inputs.futureValueInput, zero), "Future value must be positive.">>
      rateNeg == <<Lt(inputs.annualInterestRateInput, zero), "Annual interest rate cannot be negative.">>
      time == <<Le(inputs.timePeriodInput, zero), "Time period must be positive.">>
      freq == <<Le(inputs.compoundingFrequency, zero), "Compounding frequency must be positive.">>
  IN CASE IsTarget("FUTURE_VALUE") ->
            <<principal, rateNeg, time, freq,
              <<inputs.inflationRate # Undefined /\ Lt(inputs.inflationRate, zero),
                "Inflation rate cannot be negative.">> >>
       [] IsTarget("PRINCIPAL") -> <<futureValue, rateNeg, time, freq>>
       [] IsTarget("ANNUAL_INTEREST_RATE") ->
            <<principal, futureValue, time, freq,
              <<Lt(inputs.futureValueInput, inputs.principalInput),
                "Future value must be greater than or equal to principal for a positive interest rate.">> >>
       [] IsTarget("TIME_PERIOD") ->
            <<principal, futureValue,
              <<Le(inputs.annualInterestRateInput, zero),
                "Annual interest rate must be positive for time calculation.">>,
              freq,
              <<Lt(inputs.futureValueInput, inputs.principalInput),
                "Future value must be greater than or equal to principal for a positive time period.">> >>
       [] IsTarget("LOAN_PAYMENT") ->
            << <<Le(inputs.loanAmountInput, zero), "Loan amount must be positive.">>,
               <<Lt(inputs.loanInterestRateInput, zero), "Loan interest rate cannot be negative.">>,
               <<Le(inputs.loanTermInput, zero), "Loan term must be positive.">> >>
       [] OTHER -> << <<TRUE, "Invalid calculation target.">> >>

Failing(checks) == {j \in 1..Len(checks) : checks[j][1]}
FirstFailing(checks) == CHOOSE j \in Failing(checks) : \A h \in Failing(checks) : j <= h

C5_FirstFailingCheckWins ==
  Returned =>
    IF Failing(ChecksInOrder) = {} THEN ~HasError
    ELSE HasError /\ calculationResult.error = ChecksInOrder[FirstFailing(ChecksInOrder)][2]

\* a FUTURE_VALUE input violating four checks got the message of the first
C5_Witness ==
  /\ Returned
  /\ IsTarget("FUTURE_VALUE")
  /\ Cardinality(Failing(ChecksInOrder)) >= 4
  /\ calculationResult.error = "Principal amount must be positive."

(***************************************************************************)
(* C6.  The calculationTarget of the result equals the calculationTarget   *)
(* of the input: on success, on every error path and on the invalid-target *)
(* fallback.                                                               *)
(***************************************************************************)
C6_TargetStamped ==
  Returned => calculationResult.calculationTarget = inputs.calculationTarget

\* results of every kind exist: the fallback is one of them
C6_Witness ==
  /\ Returned
  /\ inputs.calculationTarget \notin Targets
  /\ calculationResult.calculationTarget = inputs.calculationTarget

(***************************************************************************)
(* C7.  With a calculationTarget outside the enumeration, no solver runs   *)
(* and nothing is raised; the result is exactly the currency echo, the     *)
(* error 'Invalid calculation target.' and the target: no computed field.  *)
(***************************************************************************)
C7_InvalidTargetFailsSoftly ==
  inputs.calculationTarget \notin Targets =>
    /\ pc \in {"entry", "returned"}
    /\ Returned =>
         /\ HasError
         /\ calculationResult.error = "Invalid calculation target."
         /\ DOMAIN calculationResult =
              {"currencyCode", "customCurrencySymbol", "error", "calculationTarget"}

C7_Witness ==
  /\ Returned
  /\ inputs.calculationTarget \notin Targets
  /\ HasError
  /\ calculationResult.error = "Invalid calculation target."

(***************************************************************************)
(* C8.  As claimed: for every inputs record with finite numeric fields the *)
(* call returns without raising; the growth-series loop makes at most      *)
(* floor(timePeriod) iterations and the amortization loop at most          *)
(* loanTerm x paymentFrequency iterations.  The code violates it: each     *)
(* iteration pushes onto an array, and a push beyond the maximal array     *)
(* length raises.                                                          *)
(***************************************************************************)
C8_ReturnsWithoutRaising ==
  /\ pc # "thrown"
  /\ pc = "growth_loop" => Le(Num(Len(growthData)), inputs.timePeriodInput)
  /\ pc = "loan_loop" => Le(Num(Len(amortizationSchedule)), InputN)

(***************************************************************************)
(* C9.  As claimed: for a LOAN_PAYMENT input with loanInterestRate = 0     *)
(* that passes the precondition checks, the periodic payment in the result *)
(* equals loanAmount / N exactly and every entry's interestPaid is 0.      *)
(* The code violates it: the final-payment correction overwrites the       *)
(* payment that is reported.                                               *)
(***************************************************************************)
C9_ZeroRatePayment ==
  LoanReturned /\ inputs.loanInterestRateInput = Num(0) =>
    /\ calculationResult.calculatedMonthlyPayment = Div(inputs.loanAmountInput, InputN)
    /\ \A j \in 1..Len(Schedule) : Schedule[j].interestPaid = Num(0)

(***************************************************************************)
(* C10.  The loan solver rejects loanAmount <= 0, then loanInterestRate    *)
(* < 0, then loanTerm <= 0, each with an error result whose three totals   *)
(* are 0 and which has no amortizationSchedule; any other input, a rate of *)
(* exactly 0 included, is accepted (no error).                             *)
(***************************************************************************)
LoanRejected(message) ==
  /\ HasError
  /\ calculationResult.error = message
  /\ calculationResult.calculatedMonthlyPayment = Num(0)
  /\ calculationResult.calculatedTotalInterestPaid = Num(0)
  /\ calculationResult.calculatedTotalAmountPaid = Num(0)
  /\ ~HasField(calculationResult, "amortizationSchedule")

C10_LoanPreconditionOrder ==
  Returned /\ IsTarget("LOAN_PAYMENT") =>
    IF Le(inputs.loanAmountInput, Num(0)) THEN LoanRejected("Loan amount must be positive.")
    ELSE IF Lt(inputs.loanInterestRateInput, Num(0))
      THEN LoanRejected("Loan interest rate cannot be negative.")
    ELSE IF Le(inputs.loanTermInput, Num(0)) THEN LoanRejected("Loan term must be positive.")
    ELSE ~HasError /\ HasField(calculationResult, "amortizationSchedule")

\* a loan at a rate of exactly 0 was accepted and amortized
C10_Witness ==
  /\ Returned
  /\ LoanPreconditions
  /\ inputs.loanInterestRateInput = Num(0)
  /\ ~HasError
  /\ Len(calculationResult.amortizationSchedule) > 0

(***************************************************************************)
(* C11.  For a successful FUTURE_VALUE calculation with time period t,     *)
(* growthData has exactly floor(t) entries, for the years 1, ..., floor(t) *)
(* in that order; the entry for year y has the value                       *)
(* principal x (1 + r/n)^(n x y), computed from the principal alone; when  *)
(* t is a whole number the last value equals calculatedFutureValue.        *)
(***************************************************************************)
\* floor of a finite number, as an integer
Floor(a) == IF a.e >= 0 THEN a.m * Pow2(a.e) ELSE FloorDiv(a.m, Pow2(-a.e))

FutureValueReturned ==
  /\ Returned
  /\ IsTarget("FUTURE_VALUE")
  /\ ~HasError
  /\ HasField(calculationResult, "growthData")

C11_GrowthSeries ==
  FutureValueReturned =>
    LET series == calculationResult.growthData
        t == inputs.timePeriodInput
    IN /\ Len(series) = Floor(t)
       /\ \A y \in 1..Len(series) :
            /\ series[y].year = Num(y)
            /\ series[y].value =
                 CompoundedValue(inputs.principalInput, inputs.annualInterestRateInput,
                                 inputs.compoundingFrequency, Num(y))
       /\ IsInteger(t) => series[Len(series)].value = calculationResult.calculatedFutureValue

\* a series of several years was returned for a time period with a fractional
\* final year, at a positive rate
C11_Witness ==
  /\ FutureValueReturned
  /\ ~IsInteger(inputs.timePeriodInput)
  /\ Len(calculationResult.growthData) >= 2
  /\ Len(calculationResult.growthData) = Floor(inputs.timePeriodInput)
  /\ Gt(inputs.annualInterestRateInput, Num(0))

(***************************************************************************)
(* C12.  For a successful FUTURE_VALUE calculation, realFutureValue is     *)
(* defined exactly when an inflation rate was supplied (it is then >= 0);  *)
(* it equals calculatedFutureValue / (1 + inflationRate/100)^t, whatever   *)
(* the compounding frequency; it equals calculatedFutureValue when the     *)
(* inflation rate is 0 and never exceeds it.                               *)
(***************************************************************************)
C12_RealFutureValue ==
  FutureValueReturned /\ HasField(calculationResult, "realFutureValue") =>
    LET real == calculationResult.realFutureValue
        nominal == calculationResult.calculatedFutureValue
        inflation == inputs.inflationRate
    IN /\ real # Undefined <=> inflation # Undefined
       /\ inflation # Undefined =>
            /\ Ge(inflation, Num(0))
            /\ real = Div(nominal, Pow(Add(Num(1), Div(inflation, Num(100))),
                                       inputs.timePeriodInput))
            /\ inflation = Num(0) => real = nominal
            /\ ~Gt(real, nominal)

\* a future value compounded twice a year was deflated by a positive inflation
\* rate to a smaller real value
C12_Witness ==
  /\ FutureValueReturned
  /\ inputs.inflationRate # Undefined
  /\ Gt(inputs.inflationRate, Num(0))
  /\ inputs.compoundingFrequency = Num(2)
  /\ Lt(calculationResult.realFutureValue, calculationResult.calculatedFutureValue)

(***************************************************************************)
(* C13.  As claimed: the annual-interest-rate solver returns an error and  *)
(* a rate of 0 whenever futureValue < principal; the message is 'Future value must be  *)
(* greater than or equal to principal for a positive interest rate.'       *)
(* exactly when principal, future value, time period and frequency are     *)
(* positive and futureValue < principal; with futureValue = principal (and *)
(* the other inputs positive) it returns rate 0 without an error.          *)
(***************************************************************************)
RateInputsPositive ==
  /\ Gt(inputs.principalInput, Num(0))
  /\ Gt(inputs.futureValueInput, Num(0))
  /\ Gt(inputs.timePeriodInput, Num(0))
  /\ Gt(inputs.compoundingFrequency, Num(0))

BelowPrincipalForRate ==
  "Future value must be greater than or equal to principal for a positive interest rate."

TimeRejected(message) ==
  /\ HasError
  /\ calculationResult.error = message
  /\ calculationResult.calculatedTimePeriod = Num(0)

C14_TimeNeedsPositiveRate ==
  Returned /\ IsTarget("TIME_PERIOD") =>
    /\ Le(inputs.annualInterestRateInput, Num(0)) =>
         HasError /\ calculationResult.calculatedTimePeriod = Num(0)
    /\ IF Le(inputs.principalInput, Num(0))
         THEN TimeRejected("Principal amount must be positive.")
       ELSE IF Le(inputs.futureValueInput, Num(0))
         THEN TimeRejected("Future value must be positive.")
       ELSE IF Le(inputs.annualInterestRateInput, Num(0))
         THEN TimeRejected("Annual interest rate must be positive for time calculation.")
       ELSE IF Le(inputs.compoundingFrequency, Num(0))
         THEN TimeRejected("Compounding frequency must be positive.")
       ELSE IF Lt(inputs.futureValueInput, inputs.principalInput)
         THEN TimeRejected("Future value must be greater than or equal to principal for a positive time period.")
       ELSE ~HasError /\ Gt(inputs.annualInterestRateInput, Num(0))

\* a rate of exactly 0, with a compounding frequency of 0 as well, was
\* rejected with the message of the rate check
C14_Witness ==
  /\ Returned
  /\ IsTarget("TIME_PERIOD")
  /\ inputs.annualInterestRateInput = Num(0)
  /\ inputs.compoundingFrequency = Num(0)
  /\ TimeRejected("Annual interest rate must be positive for time calculation.")

(***************************************************************************)
(* C15.  As claimed: for all valid FUTURE_VALUE inputs (P > 0, r >= 0,     *)
(* t > 0, n > 0), solving PRINCIPAL with futureValue set to the future     *)
(* value computed from (P, r, t, n) and the same r, t, n succeeds and      *)
(* returns P within tolerance (one unit in the last place of P).           *)
(***************************************************************************)
\* the unit in the last place of a finite a # 0
Ulp(a) ==
  [k |-> "fin", m |-> 1, e |-> IF Top(a) - Prec >= MinExp THEN Top(a) - Prec ELSE MinExp]

\* |a - b| <= ulp(b)
WithinUlp(a, b) ==
  LET d == Sub(a, b) IN IsFin(d) /\ Le(IF d.m < 0 THEN Neg(d) ELSE d, Ulp(b))

\* a PRINCIPAL call has returned whose futureValue is the future value of its
\* own principal, rate, time period and frequency
RoundTripReturned ==
  /\ Returned
  /\ IsTarget("PRINCIPAL")
  /\ Gt(inputs.principalInput, Num(0))
  /\ Ge(inputs.annualInterestRateInput, Num(0))
  /\ Gt(inputs.timePeriodInput, Num(0))
  /\ Gt(inputs.compoundingFrequency, Num(0))
  /\ inputs.futureValueInput =
       CompoundedValue(inputs.principalInput, inputs.annualInterestRateInput,
                       inputs.compoundingFrequency, inputs.timePeriodInput)
  /\ HasField(calculationResult, "calculatedPrincipal")

PlugBackTolerance == Num(Pow2(Prec - 2))

\* |a - b| <= kk * ulp(b)
Within(a, b, kk) ==
  LET d == Sub(a, b) IN IsFin(d) /\ Le(IF d.m < 0 THEN Neg(d) ELSE d, Mul(kk, Ulp(b)))

RateSolved ==
  /\ Returned
  /\ IsTarget("ANNUAL_INTEREST_RATE")
  /\ ~HasError

TimeSolved ==
  /\ Returned
  /\ IsTarget("TIME_PERIOD")
  /\ ~HasError

\* the future value of the given inputs at the solved rate
RatePluggedBack ==
  CompoundedValue(inputs.principalInput, calculationResult.calculatedAnnualInterestRate,
                  inputs.compoundingFrequency, inputs.timePeriodInput)

\* the future value of the given inputs over the solved time
TimePluggedBack ==
  CompoundedValue(inputs.principalInput, inputs.annualInterestRateInput,
                  inputs.compoundingFrequency, calculationResult.calculatedTimePeriod)

C16_PlugBack ==
  /\ RateSolved => Within(RatePluggedBack, inputs.futureValueInput, PlugBackTolerance)
  /\ TimeSolved => Within(TimePluggedBack, inputs.futureValueInput, PlugBackTolerance)

(***************************************************************************)
(* C17.  performFinancialCalculation is pure: while a call runs the inputs *)
(* record is not modified, and a call returns the result that every        *)
(* earlier call with equal inputs returned, whatever calls were made in    *)
(* between (no state is kept between calls; the locals of a call are       *)
(* constructed afresh).                                                    *)
(***************************************************************************)
EqualInputsEqualResults ==
  Returned =>
    \A j \in 1..Len(previous) :
      previous[j].inputs = inputs => previous[j].result = calculationResult

InputPeriodicRate == PeriodicInterestRate(inputs.loanInterestRateInput, inputs.paymentFrequency)

C18_EntryArithmetic ==
  LoanReturned =>
    /\ \A j \in 1..Len(Schedule) :
         /\ Schedule[j].interestPaid = Mul(Schedule[j].startingBalance, InputPeriodicRate)
         /\ Schedule[j].endingBalance =
              Max(Num(0), Sub(Schedule[j].startingBalance, Schedule[j].principalPaid))
    /\ Len(Schedule) > 0 => Schedule[1].startingBalance = inputs.loanAmountInput

(***************************************************************************)
(* C19.  As claimed: in every amortization schedule, each entry after the  *)
(* first has startingBalance equal to the previous entry's endingBalance   *)
(* plus the current entry's principalPaid, and the first entry has         *)
(* startingBalance equal to the loan amount.                               *)
(***************************************************************************)
C19_StartFromPrevious ==
  LoanReturned =>
    /\ \A j \in 2..Len(Schedule) :
         Schedule[j].startingBalance =
           Add(Schedule[j - 1].endingBalance, Schedule[j].principalPaid)
    /\ Len(Schedule) > 0 => Schedule[1].startingBalance = inputs.loanAmountInput

(***************************************************************************)
(* C19, amended.  In every amortization schedule, an entry's               *)
(* startingBalance is the balance left after its payment plus its          *)
(* principalPaid: it equals the entry's own endingBalance plus its         *)
(* principalPaid whenever that endingBalance is positive.  For an entry    *)
(* after the first whose predecessor ended with a positive balance it is   *)
(* (previous endingBalance - principalPaid) + principalPaid, that is the   *)
(* previous endingBalance up to rounding; for the first entry it is        *)
(* (loanAmount - principalPaid) + principalPaid.                           *)
(***************************************************************************)
C19_StartReconstructed ==
  LoanReturned =>
    /\ \A j \in 1..Len(Schedule) :
         Gt(Schedule[j].endingBalance, Num(0)) =>
           Schedule[j].startingBalance =
             Add(Schedule[j].endingBalance, Schedule[j].principalPaid)
    /\ \A j \in 2..Len(Schedule) :
         Gt(Schedule[j - 1].endingBalance, Num(0)) =>
           Schedule[j].startingBalance =
             Add(Sub(Schedule[j - 1].endingBalance, Schedule[j].principalPaid),
                 Schedule[j].principalPaid)
    /\ Len(Schedule) > 0 =>
         Schedule[1].startingBalance =
           Add(Sub(inputs.loanAmountInput, Schedule[1].principalPaid),
               Schedule[1].principalPaid)

\* a loan at a positive rate was paid in several payments, and the second
\* entry starts from the first entry's ending balance, not from that balance
\* plus the principal paid
C19_Witness ==
  /\ LoanReturned
  /\ Gt(inputs.loanInterestRateInput, Num(0))
  /\ Len(Schedule) >= 3
  /\ Gt(Schedule[2].endingBalance, Num(0))
  /\ Gt(Schedule[2].principalPaid, Num(0))
  /\ Schedule[2].startingBalance = Schedule[1].endingBalance
  /\ Schedule[2].startingBalance # Add(Schedule[1].endingBalance, Schedule[2].principalPaid)

(***************************************************************************)
(* The form (components/InvestmentForm): its fields, validate() and        *)
(* handleSubmit().  The engine is entered through onCalculate, which is    *)
(* App's handleCalculate.                                                  *)
(***************************************************************************)
\* Values of the fields.  parseCurrencyInput keeps a minus sign, so amounts
\* may be negative; parseNumberInput strips it, so rates and periods are not.
\* The limits of validate (500, 100) lie above the other values; one value
\* above each limit is offered.  The frequencies come from the select options.
FormAmounts == Amounts
FormRates == {Num(0), MinValue, Num(5), Num(50), Num(512)}
FormYears == {Dyadic(h, TermStep) : h \in 0..(MaxYears * Pow2(TermStep))} \cup {MinValue, Num(128)}
FormInflationRates == {Num(0), Num(2), Num(128)}
FormCompoundingFrequencies == {Num(1), Num(2)}
FormPaymentFrequencies == {Num(1), Num(2), Num(4)}
\* customCurrencySymbol as typed: empty or blank
FormCurrencySymbols == {""}

\* the fields with the loan's fields at rest, for the investment targets
InvestmentFormState(targets, principals, futureValues, rates, years, inflationRates) ==
  [calculationTarget : targets,
   principalInput : principals, futureValueInput : futureValues,
   annualInterestRateInput : rates, timePeriodInput : years,
   loanAmount : {Num(10)}, loanInterestRate : {Num(5)},
   loanTerm : {Num(1)}, loanPaymentFrequency : {Num(1)},
   compoundingFrequency : FormCompoundingFrequencies,
   selectedCurrencyCode : CurrencyCodes, customCurrencySymbol : FormCurrencySymbols,
   inflationRate : inflationRates]

\* the fields with the investment's fields at rest, for the loan
LoanFormState ==
  [calculationTarget : {"LOAN_PAYMENT"},
   principalInput : {Num(10)}, futureValueInput : {Num(10)},
   annualInterestRateInput : {Num(5)}, timePeriodInput : {Num(1)},
   loanAmount : FormAmounts, loanInterestRate : FormRates,
   loanTerm : FormYears, loanPaymentFrequency : FormPaymentFrequencies,
   compoundingFrequency : {Num(1)},
   selectedCurrencyCode : CurrencyCodes, customCurrencySymbol : FormCurrencySymbols,
   inflationRate : {Num(0)}]

\* Only the fields that validate() reads for the selected target are varied.
FormStates ==
  InvestmentFormState({"FUTURE_VALUE"}, FormAmounts, {Num(10)}, FormRates, FormYears, FormInflationRates)
    \cup InvestmentFormState({"PRINCIPAL"}, {Num(10)}, FormAmounts, FormRates, FormYears, {Num(0)})
    \cup InvestmentFormState({"ANNUAL_INTEREST_RATE"}, FormAmounts, FormAmounts, {Num(5)}, FormYears, {Num(0)})
    \cup InvestmentFormState({"TIME_PERIOD"}, FormAmounts, FormAmounts, FormRates, {Num(1)}, {Num(0)})
    \cup LoanFormState

\* newErrors[key] = message
Put(newErrors, key, message) == {p \in newErrors : p[1] # key} \cup {<<key, message>>}

checkPositive(newErrors, value, key, label) ==
  IF value = Undefined \/ Le(value, Num(0))
  THEN Put(newErrors, key, <<label, " must be a positive number.">>) ELSE newErrors

checkNonNegative(newErrors, value, key, label) ==
  IF value = Undefined \/ Lt(value, Num(0))
  THEN Put(newErrors, key, <<label, " cannot be negative.">>) ELSE newErrors

checkValueTooHigh(newErrors, value, key, label, limit) ==
  IF value # Undefined /\ Gt(value, Canon(limit, 0))
  THEN Put(newErrors, key, <<label, " seems unusually high (>", limit, ").">>) ELSE newErrors

\* the check of futureValueInput < principalInput, with the target's message
checkBelowPrincipal(newErrors, f, message) ==
  IF f.futureValueInput # Undefined /\ f.principalInput # Undefined
     /\ Lt(f.futureValueInput, f.principalInput)
  THEN Put(newErrors, "futureValueInput", <<message>>) ELSE newErrors

\* the checks of the inflation rate, made for every investment target
checkInflation(newErrors, f) ==
  IF f.calculationTarget # "LOAN_PAYMENT"
  THEN checkValueTooHigh(checkNonNegative(newErrors, f.inflationRate, "inflationRate", "Inflation rate"),
                         f.inflationRate, "inflationRate", "Inflation rate", 100)
  ELSE newErrors

\* the switch of validate(), with or without the futureValue < principal checks
validateTarget(f, belowPrincipal) ==
  CASE f.calculationTarget = "FUTURE_VALUE" ->
         LET e1 == checkPositive({}, f.principalInput, "principalInput", "Principal amount")
             e2 == checkNonNegative(e1, f.annualInterestRateInput, "annualInterestRateInput", "Annual interest rate")
             e3 == checkValueTooHigh(e2, f.annualInterestRateInput, "annualInterestRateInput", "Annual interest rate", 500)
             e4 == checkPositive(e3, f.timePeriodInput, "timePeriodInput", "Time period")
             e5 == checkValueTooHigh(e4, f.timePeriodInput, "timePeriodInput", "Time period", 100)
         IN checkPositive(e5, f.compoundingFrequency, "compoundingFrequency", "Compounding frequency")
    [] f.calculationTarget = "PRINCIPAL" ->
         LET e1 == checkPositive({}, f.futureValueInput, "futureValueInput", "Future value")
             e2 == checkNonNegative(e1, f.annualInterestRateInput, "annualInterestRateInput", "Annual interest rate")
             e3 == checkValueTooHigh(e2, f.annualInterestRateInput, "annualInterestRateInput", "Annual interest rate", 500)
             e4 == checkPositive(e3, f.timePeriodInput, "timePeriodInput", "Time period")
             e5 == checkValueTooHigh(e4, f.timePeriodInput, "timePeriodInput", "Time period", 100)
         IN checkPositive(e5, f.compoundingFrequency, "compoundingFrequency", "Compounding frequency")
    [] f.calculationTarget = "ANNUAL_INTEREST_RATE" ->
         LET e1 == checkPositive({}, f.principalInput, "principalInput", "Principal amount")
             e2 == checkPositive(e1, f.futureValueInput, "futureValueInput", "Future value")
             e3 == checkPositive(e2, f.timePeriodInput, "timePeriodInput", "Time period")
             e4 == checkValueTooHigh(e3, f.timePeriodInput, "timePeriodInput", "Time period", 100)
             e5 == checkPositive(e4, f.compoundingFrequency, "compoundingFrequency", "Compounding frequency")
         IN IF belowPrincipal
            THEN checkBelowPrincipal(e5, f, "Future value must be greater than or equal to principal for a positive interest rate.")
            ELSE e5
    [] f.calculationTarget = "TIME_PERIOD" ->
         LET e1 == checkPositive({}, f.principalInput, "principalInput", "Principal amount")
             e2 == checkPositive(e1, f.futureValueInput, "futureValueInput", "Future value")
             e3 == checkPositive(e2, f.annualInterestRateInput, "annualInterestRateInput", "Annual interest rate")
             e4 == checkValueTooHigh(e3, f.annualInterestRateInput, "annualInterestRateInput", "Annual interest rate", 500)
             e5 == checkPositive(e4, f.compoundingFrequency, "compoundingFrequency", "Compounding frequency")
         IN IF belowPrincipal
            THEN checkBelowPrincipal(e5, f, "Future value must be greater than or equal to principal for a positive time period.")
            ELSE e5
    [] f.calculationTarget = "LOAN_PAYMENT" ->
         LET e1 == checkPositive({}, f.loanAmount, "loanAmount", "Loan amount")
             e2 == checkNonNegative(e1, f.loanInterestRate, "loanInterestRate", "Loan interest rate")
             e3 == checkValueTooHigh(e2, f.loanInterestRate, "loanInterestRate", "Loan interest rate", 500)
             e4 == checkPositive(e3, f.loanTerm, "loanTerm", "Loan term")
         IN checkValueTooHigh(e4, f.loanTerm, "loanTerm", "Loan term", 100)
    [] OTHER -> {}

\* faulty variant of validate below: the comparison of the future value with
\* the principal is missing
validateWithoutBelowPrincipal(f) == checkInflation(validateTarget(f, FALSE), f)

\* validate(): the errors found in the fields f (none: the form is valid)
validate(f) == checkInflation(validateTarget(f, TRUE), f)

\* customCurrencySymbol.trim() !== '' ? customCurrencySymbol : undefined
SubmittedSymbol(customCurrencySymbol) ==
  IF customCurrencySymbol \in {"", " "} THEN NoSymbol ELSE customCurrencySymbol

\* the inputs record that handleSubmit builds from the fields f
SubmittedInputs(f) ==
  IF f.calculationTarget = "LOAN_PAYMENT"
  THEN [calculationTarget |-> f.calculationTarget,
        principalInput |-> Undefined, futureValueInput |-> Undefined,
        annualInterestRateInput |-> Undefined, timePeriodInput |-> Undefined,
        loanAmountInput |-> f.loanAmount, loanInterestRateInput |-> f.loanInterestRate,
        loanTermInput |-> f.loanTerm, paymentFrequency |-> f.loanPaymentFrequency,
        compoundingFrequency |-> f.compoundingFrequency,
        currencyCode |-> f.selectedCurrencyCode,
        customCurrencySymbol |-> SubmittedSymbol(f.customCurrencySymbol),
        inflationRate |-> Undefined]
  ELSE [calculationTarget |-> f.calculationTarget,
        principalInput |-> f.principalInput, futureValueInput |-> f.futureValueInput,
        annualInterestRateInput |-> f.annualInterestRateInput,
        timePeriodInput |-> f.timePeriodInput,
        loanAmountInput |-> Undefined, loanInterestRateInput |-> Undefined,
        loanTermInput |-> Undefined, paymentFrequency |-> Undefined,
        compoundingFrequency |-> f.compoundingFrequency,
        currencyCode |-> f.selectedCurrencyCode,
        customCurrencySymbol |-> SubmittedSymbol(f.customCurrencySymbol),
        inflationRate |-> f.inflationRate]

\* the form is shown with some field values; nothing has been calculated yet
FormInit ==
  /\ EmptyLists
  /\ pc = "form"
  /\ form \in FormStates
  /\ errors = {}
  /\ inputs = Null
  /\ calculationResult = Null
  /\ year = Undefined
  /\ growthData = <<>>
  /\ i = Undefined
  /\ currentBalance = Undefined
  /\ calculatedPeriodicPayment = Undefined
  /\ amortizationSchedule = <<>>
  /\ previous = <<>>

\* the "Solve For" select: setCalculationTarget
SelectTarget ==
  /\ pc = "form"
  /\ \E target \in Targets : form' = [form EXCEPT !.calculationTarget = target]
  /\ UNCHANGED <<pc, store, stacks, errors, inputs, calculationResult, year, growthData, i,
                 currentBalance, calculatedPeriodicPayment, amortizationSchedule, previous>>

\* handleSubmit: validate() sets the errors; if there are none, onCalculate is
\* called with the inputs record and the engine is entered
handleSubmit ==
  /\ pc = "form"
  /\ LET newErrors == validate(form)
     IN /\ errors' = newErrors
        /\ IF newErrors = {}
           THEN /\ inputs' = SubmittedInputs(form)
                /\ pc' = "entry"
           ELSE UNCHANGED <<pc, inputs>>
  /\ UNCHANGED <<store, stacks, form, calculationResult, year, growthData, i, currentBalance,
                 calculatedPeriodicPayment, amortizationSchedule, previous>>

\* the form never submits a target outside the enumeration
FormNext ==
  \/ SelectTarget
  \/ handleSubmit
  \/ CallFutureValue
  \/ GrowthLoopStep
  \/ GrowthLoopExit
  \/ CallPresentValue
  \/ CallAnnualInterestRate
  \/ CallTimePeriod
  \/ CallLoanPayment
  \/ LoanLoopStep
  \/ LoanLoopExit

FormSpec == FormInit /\ [][FormNext]_vars

(***************************************************************************)
(* C20.  The form invokes onCalculate (and so the engine) only after       *)
(* validate() has found no errors for the selected target, with the inputs *)
(* record built from the validated fields, and the engine returns no       *)
(* error for these inputs.                                                 *)
(***************************************************************************)
C20_FormValidatedInputsPass ==
  /\ pc # "form" =>
       /\ validate(form) = {}
       /\ errors = {}
       /\ inputs = SubmittedInputs(form)
  /\ Returned => ~HasError

\* the rate solver was entered from the form with a future value equal to the
\* principal, the smallest future value that validate() lets through, and
\* returned without an error
C20_Witness ==
  /\ Returned
  /\ form.calculationTarget = "ANNUAL_INTEREST_RATE"
  /\ form.futureValueInput = form.principalInput
  /\ inputs = SubmittedInputs(form)
  /\ ~HasError

(***************************************************************************)
(* Calls with a missing field: performFinancialCalculation passes the      *)
(* optional fields on with a non-null assertion, so a caller that leaves   *)
(* out a field the target needs hands undefined to the solver.             *)
(***************************************************************************)
\* valid values of the fields that are present; the largest number is offered
\* as a time period to the rate solver only (the other solvers loop over it)
PresentAmounts == {Num(3), Num(10)}
PresentRates == {Num(5), Num(50)}
PresentYears == {Dyadic(1, 1), Num(1), Num(2)}
PresentFrequencies == {Num(1), Num(2)}

\* investment inputs over the given value sets
InvestmentInputsOver(targets, principals, futureValues, rates, years) ==
  [calculationTarget : targets,
   principalInput : principals, futureValueInput : futureValues,
   annualInterestRateInput : rates, timePeriodInput : years,
   loanAmountInput : {Undefined}, loanInterestRateInput : {Undefined},
   loanTermInput : {Undefined}, paymentFrequency : {Undefined},
   compoundingFrequency : PresentFrequencies,
   currencyCode : CurrencyCodes, customCurrencySymbol : CurrencySymbols,
   inflationRate : {Undefined}]

\* loan inputs over the given value sets
LoanInputsOver(amounts, rates, terms, frequencies) ==
  [calculationTarget : {"LOAN_PAYMENT"},
   principalInput : {Undefined}, futureValueInput : {Undefined},
   annualInterestRateInput : {Undefined}, timePeriodInput : {Undefined},
   loanAmountInput : amounts, loanInterestRateInput : rates,
   loanTermInput : terms, paymentFrequency : frequencies,
   compoundingFrequency : {Num(1)},
   currencyCode : CurrencyCodes, customCurrencySymbol : CurrencySymbols,
   inflationRate : {Undefined}]

\* the fields each target passes to its solver with a non-null assertion
RequiredFields(target) ==
  CASE target = "FUTURE_VALUE" -> {"principalInput", "annualInterestRateInput", "timePeriodInput"}
    [] target = "PRINCIPAL" -> {"futureValueInput", "annualInterestRateInput", "timePeriodInput"}
    [] target = "ANNUAL_INTEREST_RATE" -> {"principalInput", "futureValueInput", "timePeriodInput"}
    [] target = "TIME_PERIOD" -> {"principalInput", "futureValueInput", "annualInterestRateInput"}
    [] target = "LOAN_PAYMENT" -> {"loanAmountInput", "loanInterestRateInput", "loanTermInput", "paymentFrequency"}
    [] OTHER -> {}

\* inputs with exactly one required field missing, the others valid (where
\* principal and future value are both present, the future value is not below
\* the principal)
MissingFieldInputs ==
  LET none == {Undefined}
      A == PresentAmounts
      R == PresentRates
      Y == PresentYears
      F == PresentFrequencies
  IN InvestmentInputsOver({"FUTURE_VALUE"}, none, none, R, Y)
       \cup InvestmentInputsOver({"FUTURE_VALUE"}, A, none, none, Y)
       \cup InvestmentInputsOver({"FUTURE_VALUE"}, A, none, R, none)
       \cup InvestmentInputsOver({"PRINCIPAL"}, none, none, R, Y)
       \cup InvestmentInputsOver({"PRINCIPAL"}, none, A, none, Y)
       \cup InvestmentInputsOver({"PRINCIPAL"}, none, A, R, none)
       \cup InvestmentInputsOver({"ANNUAL_INTEREST_RATE"}, none, A, none, Y \cup {MaxValue})
       \cup InvestmentInputsOver({"ANNUAL_INTEREST_RATE"}, A, none, none, Y \cup {MaxValue})
       \cup InvestmentInputsOver({"ANNUAL_INTEREST_RATE"}, {Num(3)}, A, none, none)
       \cup InvestmentInputsOver({"TIME_PERIOD"}, none, A, R, none)
       \cup InvestmentInputsOver({"TIME_PERIOD"}, A, none, R, none)
       \cup InvestmentInputsOver({"TIME_PERIOD"}, {Num(3)}, A, none, none)
       \cup LoanInputsOver(none, R \cup {Num(0)}, Y, F)
       \cup LoanInputsOver(A, none, Y, F)
       \cup LoanInputsOver(A, R \cup {Num(0)}, none, F)
       \cup LoanInputsOver(A, R \cup {Num(0)}, Y, none)
       \cup InvestmentInputsOver(InvalidTargets, none, none, none, none)

\* handleCalculate was called with a record that lacks a required field
MissingInit ==
  /\ EmptyLists
  /\ pc = "entry"
  /\ inputs \in MissingFieldInputs
  /\ calculationResult = Null
  /\ year = Undefined
  /\ growthData = <<>>
  /\ i = Undefined
  /\ currentBalance = Undefined
  /\ calculatedPeriodicPayment = Undefined
  /\ amortizationSchedule = <<>>
  /\ previous = <<>>
  /\ form = Null
  /\ errors = {}

MissingSpec == MissingInit /\ [][Next]_vars

(***************************************************************************)
(* C21.  As claimed: when a field required by the selected target is       *)
(* missing and the remaining fields are valid, no precondition check       *)
(* fails, and the result carries no error while its computed value is not  *)
(* a number.                                                               *)
(***************************************************************************)
\* the field of the result that holds the value computed for the target
ValueField(target) ==
  CASE target = "FUTURE_VALUE" -> "calculatedFutureValue"
    [] target = "PRINCIPAL" -> "calculatedPrincipal"
    [] target = "ANNUAL_INTEREST_RATE" -> "calculatedAnnualInterestRate"
    [] target = "TIME_PERIOD" -> "calculatedTimePeriod"
    [] target = "LOAN_PAYMENT" -> "calculatedMonthlyPayment"

\* a call for a valid target has returned, one of whose required fields was missing
MissingFieldReturned ==
  /\ Returned
  /\ inputs.calculationTarget \in Targets
  /\ \E f \in RequiredFields(inputs.calculationTarget) : inputs[f] = Undefined

ComputedValue == calculationResult[ValueField(inputs.calculationTarget)]

C21_MissingFieldGivesNaN ==
  MissingFieldReturned => ~HasError /\ ComputedValue = NaN

(***************************************************************************)
(* C21, amended.  The same, with one exception: in the rate solver, when   *)
(* the principal or the future value is missing and n x t overflows to     *)
(* Infinity, the exponent 1 / (n x t) is 0, Math.pow(NaN, 0) is 1 and the  *)
(* computed rate is 0 (no error).                                          *)
(***************************************************************************)
RateExponentZero ==
  /\ IsTarget("ANNUAL_INTEREST_RATE")
  /\ inputs.timePeriodInput # Undefined
  /\ Div(Num(1), Mul(inputs.compoundingFrequency, inputs.timePeriodInput)) = Num(0)

C21_MissingFieldGivesNaNOrRateZero ==
  MissingFieldReturned =>
    /\ ~HasError
    /\ ComputedValue = IF RateExponentZero THEN Num(0) ELSE NaN

\* a future value was computed without a principal: no error, a series of NaN
\* values and a NaN result
C21_Witness ==
  /\ MissingFieldReturned
  /\ IsTarget("FUTURE_VALUE")
  /\ inputs.principalInput = Undefined
  /\ ~HasError
  /\ Len(calculationResult.growthData) >= 1
  /\ calculationResult.growthData[1].value = NaN
  /\ calculationResult.calculatedFutureValue = NaN

(***************************************************************************)
(* C22.  In the amortization loop the final-payment correction is applied  *)
(* on payment N and on no other payment: every entry with paymentNumber    *)
(* < N has principalPaid = payment - interestPaid with the closed-form     *)
(* payment, the entry with paymentNumber = N has principalPaid equal to    *)
(* the whole balance remaining before it, and in every successful schedule *)
(* exactly one entry has paymentNumber = N.                                *)
(***************************************************************************)
\* currentBalance after the first j entries of schedule s of a loan of amount
RECURSIVE RunningBalance(_, _, _)
RunningBalance(s, amount, j) ==
  IF j = 0 THEN amount ELSE Sub(RunningBalance(s, amount, j - 1), s[j].principalPaid)

InputClosedFormPayment ==
  ClosedFormPayment(inputs.loanAmountInput, inputs.loanInterestRateInput,
                    inputs.loanTermInput, inputs.paymentFrequency)

\* the entries on which the final-payment correction fired
CorrectedEntries == {j \in 1..Len(Schedule) : StrictEq(Schedule[j].paymentNumber, InputN)}

C22_CorrectionOnPaymentN ==
  LoanReturned /\ ~HasError =>
    /\ \A j \in 1..Len(Schedule) :
         Lt(Schedule[j].paymentNumber, InputN) =>
           Schedule[j].principalPaid = Sub(InputClosedFormPayment, Schedule[j].interestPaid)
    /\ \A j \in CorrectedEntries :
         Schedule[j].principalPaid = RunningBalance(Schedule, inputs.loanAmountInput, j - 1)
    /\ Cardinality(CorrectedEntries) = 1

(***************************************************************************)
(* C23.  The periodic payment reported in a successful LOAN_PAYMENT result *)
(* (calculatedMonthlyPayment) is the closed-form payment: loanAmount / N   *)
(* when the periodic rate is 0, otherwise                                  *)
(* loanAmount x i (1+i)^N / ((1+i)^N - 1); it is the amount that every     *)
(* entry before payment N pays as interestPaid + principalPaid.            *)
(***************************************************************************)
C23_ReportedPaymentIsClosedForm ==
  LoanReturned /\ ~HasError =>
    /\ calculationResult.calculatedMonthlyPayment = InputClosedFormPayment
    /\ \A j \in 1..Len(Schedule) :
         Lt(Schedule[j].paymentNumber, InputN) =>
           Add(Schedule[j].interestPaid, Schedule[j].principalPaid)
             = calculationResult.calculatedMonthlyPayment

(***************************************************************************)
(* Calls that differ in the fields a target does not use                   *)
(*                                                                         *)
(* performFinancialCalculation destructures every field of the record and  *)
(* hands each solver its own: the loan solver gets the three loan fields   *)
(* and paymentFrequency, the investment solvers get investment fields and  *)
(* compoundingFrequency.  Here a calculation is followed by a second one   *)
(* whose record differs in the other fields only.                          *)
(***************************************************************************)

\* the fields of the record the loan case does not pass on
LoanUnusedFields ==
  {"principalInput", "futureValueInput", "annualInterestRateInput", "timePeriodInput",
   "compoundingFrequency", "inflationRate"}

\* the loan fields, which no investment case passes on
InvestmentUnusedFields ==
  {"loanAmountInput", "loanInterestRateInput", "loanTermInput", "paymentFrequency"}

UnusedFields(target) ==
  IF target = "LOAN_PAYMENT" THEN LoanUnusedFields ELSE InvestmentUnusedFields

\* the first calls: valid and invalid records of every target
SeparationInputs ==
  InvestmentInputsOver((Targets \ {"LOAN_PAYMENT"}) \cup InvalidTargets,
                       {Num(3)}, {Num(10)}, {Num(-5), Num(5)}, {Num(1), Num(2)})
    \cup LoanInputsOver({Num(10)}, {Num(0), Num(50)}, {Num(-1), Num(1), Num(2)},
                        {Num(1), Num(2)})

\* the values the second call puts into an unused field
OtherValues(field) ==
  CASE field \in {"compoundingFrequency", "paymentFrequency"} -> {Num(0), Num(2), Num(4)}
    [] field \in {"loanInterestRateInput", "annualInterestRateInput", "inflationRate"} ->
         {Undefined, Num(-5), Num(50)}
    [] OTHER -> {Undefined, Num(-3), Num(10)}

\* records equal to inp but for one of the fields its target leaves unused
OtherFieldsInputs(inp) ==
  UNION {{[inp EXCEPT ![f] = v] : v \in OtherValues(f)} :
           f \in UnusedFields(inp.calculationTarget)}

SeparationInit ==
  /\ EmptyLists
  /\ pc = "entry"
  /\ inputs \in SeparationInputs
  /\ calculationResult = Null
  /\ year = Undefined
  /\ growthData = <<>>
  /\ i = Undefined
  /\ currentBalance = Undefined
  /\ calculatedPeriodicPayment = Undefined
  /\ amortizationSchedule = <<>>
  /\ previous = <<>>
  /\ form = Null
  /\ errors = {}

\* handleCalculate is invoked again with a record that differs in unused fields
CallWithOtherFields ==
  /\ pc = "returned"
  /\ Len(previous) < MaxCalls - 1
  /\ previous' = Append(previous, [inputs |-> inputs, result |-> calculationResult])
  /\ inputs' \in OtherFieldsInputs(inputs)
  /\ pc' = "entry"
  /\ UNCHANGED <<store, stacks, form, errors, calculationResult, year, growthData, i, currentBalance,
                 calculatedPeriodicPayment, amortizationSchedule>>

SeparationNext ==
  \/ Next
  \/ CallWithOtherFields

SeparationSpec == SeparationInit /\ [][SeparationNext]_vars

\* two records agree on every field their common target uses
SameUsedFields(a, b) ==
  /\ a.calculationTarget = b.calculationTarget
  /\ \A f \in (DOMAIN a) \ UnusedFields(a.calculationTarget) : a[f] = b[f]

C25_PrincipalSumsToLoanAmount ==
  LoanReturned /\ ~HasError =>
    /\ SumField(Schedule, "principalPaid", Len(Schedule)) = inputs.loanAmountInput
    /\ calculationResult.calculatedTotalInterestPaid
         = SumField(Schedule, "interestPaid", Len(Schedule))

(***************************************************************************)
(* C26.  The entries of every amortization schedule chain: the             *)
(* startingBalance of each entry after the first is the endingBalance of   *)
(* the entry before it; the running balance is never negative before the   *)
(* last payment, so the max(0, .) clamp never changes a balance that is    *)
(* carried into the next entry.                                            *)
(***************************************************************************)
C26_EntriesChain ==
  LoanReturned /\ ~HasError =>
    /\ \A j \in 2..Len(Schedule) :
         Schedule[j].startingBalance = Schedule[j - 1].endingBalance
    /\ \A j \in 1..(Len(Schedule) - 1) :
         ~Lt(RunningBalance(Schedule, inputs.loanAmountInput, j), Num(0))

(***************************************************************************)
(* C27.  The loan solver makes no check on paymentFrequency: with          *)
(* paymentFrequency = 0, loanAmount > 0, loanInterestRate >= 0 and         *)
(* loanTerm > 0 it returns a result with no error, an empty                *)
(* amortizationSchedule, calculatedTotalAmountPaid 0 and                   *)
(* calculatedTotalInterestPaid -loanAmount.                                *)
(***************************************************************************)
C27_ZeroPaymentFrequency ==
  /\ inputs.calculationTarget = "LOAN_PAYMENT"
  /\ inputs.paymentFrequency = Num(0)
  /\ Gt(inputs.loanAmountInput, Num(0))
  /\ Ge(inputs.loanInterestRateInput, Num(0))
  /\ Gt(inputs.loanTermInput, Num(0))
  => /\ pc # "thrown"
     /\ Returned =>
          /\ ~HasError
          /\ calculationResult.amortizationSchedule = <<>>
          /\ calculationResult.calculatedTotalAmountPaid = Num(0)
          /\ calculationResult.calculatedTotalInterestPaid = Neg(inputs.loanAmountInput)

\* a loan of 10 at 5 % over 2 years with paymentFrequency 0 has returned
C27_Witness ==
  /\ Returned /\ ~HasError
  /\ inputs.calculationTarget = "LOAN_PAYMENT"
  /\ inputs.paymentFrequency = Num(0)
  /\ inputs.loanAmountInput = Num(10)
  /\ inputs.loanInterestRateInput = Num(5)
  /\ inputs.loanTermInput = Num(2)
  /\ calculationResult.amortizationSchedule = <<>>
  /\ calculationResult.calculatedTotalInterestPaid = Num(-10)

(***************************************************************************)
(* The saved scenarios of App                                              *)
(*                                                                         *)
(* App keeps two lists of saved scenarios and, for each, the list of ids   *)
(* selected for comparison.  A scenario's id is Date.now().toString(), so  *)
(* two scenarios saved within one millisecond carry the same id.  The      *)
(* results view offers the toggle and the remove button for the saved      *)
(* scenarios only.                                                         *)
(***************************************************************************)
MaxScenarios == 3

ScenarioIds == {"1700000000000", "1700000000001"}
ScenarioNames == {"Loan 1", "Plan B"}

\* what the results view hands to onSaveLoanScenario / onSaveInvestmentScenario
Scenarios == [id : ScenarioIds, name : ScenarioNames]

\* prev.includes(id)
includes(prev, id) == \E j \in 1..Len(prev) : prev[j] = id

\* the ids of a list of scenarios
IdsOf(scenarios) == {scenarios[j].id : j \in 1..Len(scenarios)}

StoreInit ==
  /\ EmptyLists
  /\ pc = "results"
  /\ inputs = Null
  /\ calculationResult = Null
  /\ year = Undefined
  /\ growthData = <<>>
  /\ i = Undefined
  /\ currentBalance = Undefined
  /\ calculatedPeriodicPayment = Undefined
  /\ amortizationSchedule = <<>>
  /\ previous = <<>>
  /\ form = Null
  /\ errors = {}

StoreRest ==
  UNCHANGED <<pc, inputs, calculationResult, year, growthData, i, currentBalance,
              calculatedPeriodicPayment, amortizationSchedule, previous, form, errors, stacks>>

addLoanScenario(scenario) ==
  /\ Len(savedLoanScenarios) + Len(savedInvestmentScenarios) < MaxScenarios
  /\ savedLoanScenarios' = Append(savedLoanScenarios, scenario)
  /\ UNCHANGED <<selectedScenarioForComparison, savedInvestmentScenarios,
                 selectedInvestmentForComparison>>
  /\ StoreRest

\* faulty variant of the removal below: the selection is left alone
removeLoanScenarioKeepsSelection(id) ==
  /\ savedLoanScenarios' = SelectSeq(savedLoanScenarios, LAMBDA s : s.id # id)
  /\ UNCHANGED <<selectedScenarioForComparison, savedInvestmentScenarios,
                 selectedInvestmentForComparison>>
  /\ StoreRest

removeLoanScenario(id) ==
  /\ savedLoanScenarios' = SelectSeq(savedLoanScenarios, LAMBDA s : s.id # id)
  /\ selectedScenarioForComparison' = SelectSeq(selectedScenarioForComparison, LAMBDA _id : _id # id)
  /\ UNCHANGED <<savedInvestmentScenarios, selectedInvestmentForComparison>>
  /\ StoreRest

toggleScenarioForComparison(id) ==
  /\ selectedScenarioForComparison' =
       IF includes(selectedScenarioForComparison, id)
       THEN SelectSeq(selectedScenarioForComparison, LAMBDA _id : _id # id)
       ELSE Append(selectedScenarioForComparison, id)
  /\ UNCHANGED <<savedLoanScenarios, savedInvestmentScenarios, selectedInvestmentForComparison>>
  /\ StoreRest

addInvestmentScenario(scenario) ==
  /\ Len(savedLoanScenarios) + Len(savedInvestmentScenarios) < MaxScenarios
  /\ savedInvestmentScenarios' = Append(savedInvestmentScenarios, scenario)
  /\ UNCHANGED <<savedLoanScenarios, selectedScenarioForComparison,
                 selectedInvestmentForComparison>>
  /\ StoreRest

removeInvestmentScenario(id) ==
  /\ savedInvestmentScenarios' = SelectSeq(savedInvestmentScenarios, LAMBDA s : s.id # id)
  /\ selectedInvestmentForComparison' = SelectSeq(selectedInvestmentForComparison, LAMBDA _id : _id # id)
  /\ UNCHANGED <<savedLoanScenarios, selectedScenarioForComparison>>
  /\ StoreRest

toggleInvestmentScenarioForComparison(id) ==
  /\ selectedInvestmentForComparison' =
       IF includes(selectedInvestmentForComparison, id)
       THEN SelectSeq(selectedInvestmentForComparison, LAMBDA _id : _id # id)
       ELSE Append(selectedInvestmentForComparison, id)
  /\ UNCHANGED <<savedLoanScenarios, selectedScenarioForComparison, savedInvestmentScenarios>>
  /\ StoreRest

\* the callbacks as the results view issues them: a save with any id, a
\* removal with any id, a toggle with the id of a saved scenario
StoreNext ==
  \/ \E scenario \in Scenarios : addLoanScenario(scenario)
  \/ \E id \in ScenarioIds : removeLoanScenario(id)
  \/ \E id \in IdsOf(savedLoanScenarios) : toggleScenarioForComparison(id)
  \/ \E scenario \in Scenarios : addInvestmentScenario(scenario)
  \/ \E id \in ScenarioIds : removeInvestmentScenario(id)
  \/ \E id \in IdsOf(savedInvestmentScenarios) : toggleInvestmentScenarioForComparison(id)

StoreSpec == StoreInit /\ [][StoreNext]_vars

\* every selected id is the id of a saved scenario and is selected once
SelectionWithinSaved(saved, selected) ==
  /\ \A j \in 1..Len(selected) : selected[j] \in IdsOf(saved)
  /\ \A j, k \in 1..Len(selected) : selected[j] = selected[k] => j = k

\* a removal of id leaves id neither saved nor selected
RemovalsRemove ==
  \A id \in ScenarioIds :
    /\ removeLoanScenario(id) =>
         id \notin IdsOf(savedLoanScenarios') /\ ~includes(selectedScenarioForComparison', id)
    /\ removeInvestmentScenario(id) =>
         id \notin IdsOf(savedInvestmentScenarios')
           /\ ~includes(selectedInvestmentForComparison', id)

(***************************************************************************)
(* C28.  Saved-scenario store: after any sequence of saves, removals and   *)
(* toggles in which a toggle is issued only for the id of a saved          *)
(* scenario, every id selected for comparison is the id of a saved         *)
(* scenario and is selected at most once; a removal of id leaves id        *)
(* neither in the saved list nor in the selection.  The same holds of the  *)
(* investment scenarios.                                                   *)
(***************************************************************************)
C28_SelectionWithinSaved ==
  /\ [](SelectionWithinSaved(savedLoanScenarios, selectedScenarioForComparison)
          /\ SelectionWithinSaved(savedInvestmentScenarios, selectedInvestmentForComparison))
  /\ [][RemovalsRemove]_vars

\* two loan scenarios saved in the same millisecond were selected, and an
\* investment scenario was selected; removing the shared id will empty the
\* loan list and its selection
C28_Witness ==
  /\ Len(savedLoanScenarios) = 2
  /\ savedLoanScenarios[1].id = savedLoanScenarios[2].id
  /\ savedLoanScenarios[1] # savedLoanScenarios[2]
  /\ selectedScenarioForComparison = <<savedLoanScenarios[1].id>>
  /\ Len(savedInvestmentScenarios) = 1
  /\ selectedInvestmentForComparison = <<savedInvestmentScenarios[1].id>>

(***************************************************************************)
(* The undo and redo stacks of the form                                    *)
(*                                                                         *)
(* The form keeps two stacks of snapshots of its fields.  A handler of a   *)
(* render sees the fields and the stacks of that render: the snapshot      *)
(* taken by pushCurrentStateToHistory inside a select's onChange is the    *)
(* one from before the setter called on the line above it.  Here           *)
(* `previous` holds the last two handler calls, each with the fields and   *)
(* the stacks it started from.                                             *)
(***************************************************************************)
MaxHistory == 3

initialFormState ==
  [calculationTarget |-> "FUTURE_VALUE",
   principalInput |-> Canon(10000, 0), futureValueInput |-> Canon(20000, 0),
   annualInterestRateInput |-> Num(5), timePeriodInput |-> Num(10),
   loanAmount |-> Canon(100000, 0), loanInterestRate |-> Dyadic(9, 1),
   loanTerm |-> Num(30), loanPaymentFrequency |-> Num(12),
   compoundingFrequency |-> Num(1),
   selectedCurrencyCode |-> "USD", customCurrencySymbol |-> "",
   inflationRate |-> Num(0)]

\* what is typed into the principal field, after parseCurrencyInput
TypedPrincipals == {Num(0), Num(3)}
\* the options picked in the "Solve For" select
PickedTargets == {"FUTURE_VALUE", "LOAN_PAYMENT"}

getFormStateSnapshot == form

HistoryInit ==
  /\ EmptyLists
  /\ pc = "mount"
  /\ form = initialFormState
  /\ errors = {}
  /\ inputs = Null
  /\ calculationResult = Null
  /\ year = Undefined
  /\ growthData = <<>>
  /\ i = Undefined
  /\ currentBalance = Undefined
  /\ calculatedPeriodicPayment = Undefined
  /\ amortizationSchedule = <<>>
  /\ previous = <<>>

HistoryRest ==
  UNCHANGED <<inputs, calculationResult, year, growthData, i, currentBalance,
              calculatedPeriodicPayment, amortizationSchedule, store>>

\* the handler called and what it started from, kept with the call before it
Called(handler) ==
  previous' = (IF previous = <<>> THEN <<>> ELSE <<previous[Len(previous)]>>)
                \o <<[handler |-> handler, form |-> form, history |-> history, future |-> future]>>

\* useEffect(..., []): the initial snapshot is pushed on mount
Mount ==
  /\ pc = "mount"
  /\ pc' = "form"
  /\ history' = IF Len(history) = 0 THEN <<getFormStateSnapshot>> ELSE history
  /\ Called("useEffect")
  /\ UNCHANGED <<form, errors, future>>
  /\ HistoryRest

\* onChange of the principal field
ChangePrincipal ==
  /\ pc = "form"
  /\ \E value \in TypedPrincipals : form' = [form EXCEPT !.principalInput = value]
  /\ Called("onChange")
  /\ UNCHANGED <<pc, errors, history, future>>
  /\ HistoryRest

\* faulty variant of the push below: the redo stack is kept
pushKeepingFuture(latestSnapshot) ==
  IF Len(history) > 0 /\ latestSnapshot = history[Len(history)]
  THEN UNCHANGED <<history, future>>
  ELSE /\ history' = Append(history, latestSnapshot)
       /\ UNCHANGED future

\* pushCurrentStateToHistory as called in a render whose snapshot is latestSnapshot
pushCurrentStateToHistory(latestSnapshot) ==
  IF Len(history) > 0 /\ latestSnapshot = history[Len(history)]
  THEN UNCHANGED <<history, future>>
  ELSE /\ history' = Append(history, latestSnapshot)
       /\ future' = <<>>

\* onBlur of a text field
Blur ==
  /\ pc = "form"
  /\ Len(history) < MaxHistory
  /\ pushCurrentStateToHistory(getFormStateSnapshot)
  /\ Called("pushCurrentStateToHistory")
  /\ UNCHANGED <<pc, form, errors>>
  /\ HistoryRest

\* onChange of the "Solve For" select: the setter, then the push with the
\* snapshot of the render the handler belongs to
ChangeTarget ==
  /\ pc = "form"
  /\ Len(history) < MaxHistory
  /\ \E target \in PickedTargets : form' = [form EXCEPT !.calculationTarget = target]
  /\ pushCurrentStateToHistory(getFormStateSnapshot)
  /\ Called("pushCurrentStateToHistory")
  /\ UNCHANGED <<pc, errors>>
  /\ HistoryRest

\* a submit that validate() rejects: the errors are shown
SubmitRejected ==
  /\ pc = "form"
  /\ validate(form) # {}
  /\ errors' = validate(form)
  /\ Called("handleSubmit")
  /\ UNCHANGED <<pc, form, history, future>>
  /\ HistoryRest

handleUndo ==
  /\ pc = "form"
  /\ Called("handleUndo")
  /\ IF Len(history) <= 1
     THEN UNCHANGED <<form, errors, history, future>>
     ELSE LET currentStateSnapshot == getFormStateSnapshot
              previousStateSnapshot == history[Len(history) - 1]
          IN /\ future' = <<currentStateSnapshot>> \o future
             /\ history' = SubSeq(history, 1, Len(history) - 1)
             /\ form' = previousStateSnapshot
             /\ errors' = {}
  /\ UNCHANGED pc
  /\ HistoryRest

handleRedo ==
  /\ pc = "form"
  /\ Called("handleRedo")
  /\ IF Len(future) = 0
     THEN UNCHANGED <<form, errors, history, future>>
     ELSE LET nextStateSnapshot == future[1]
              currentStateSnapshot == getFormStateSnapshot
          IN /\ history' = Append(history, currentStateSnapshot)
             /\ future' = Tail(future)
             /\ form' = nextStateSnapshot
             /\ errors' = {}
  /\ UNCHANGED pc
  /\ HistoryRest

handleReset ==
  /\ pc = "form"
  /\ Called("handleReset")
  /\ form' = initialFormState
  /\ errors' = {}
  /\ history' = <<initialFormState>>
  /\ future' = <<>>
  /\ UNCHANGED pc
  /\ HistoryRest

HistoryNext ==
  \/ Mount
  \/ ChangePrincipal
  \/ Blur
  \/ ChangeTarget
  \/ SubmitRejected
  \/ handleUndo
  \/ handleRedo
  \/ handleReset

HistorySpec == HistoryInit /\ [][HistoryNext]_vars

\* the last two handler calls were handleUndo, then handleRedo, and the undo
\* started with at least two entries of which the last was the form's fields
UndoneAndRedone ==
  /\ Len(previous) = 2
  /\ previous[1].handler = "handleUndo"
  /\ previous[2].handler = "handleRedo"
  /\ Len(previous[1].history) >= 2
  /\ previous[1].form = previous[1].history[Len(previous[1].history)]

(***************************************************************************)
(* C29.  Undo/redo round trip: from a state where history has at least two *)
(* entries and the form's fields equal the last of them, handleUndo        *)
(* followed immediately by handleRedo restores the fields to their values  *)
(* before the undo and leaves the history and future stacks as they were   *)
(* before the undo.                                                        *)
(***************************************************************************)
C29_UndoRedoRoundTrip ==
  UndoneAndRedone =>
    /\ form = previous[1].form
    /\ history = previous[1].history
    /\ future = previous[1].future

\* the form's own state
formState == <<form, errors, history, future>>

\* a step of the handler named, as recorded by Called
Calls(handler) == previous' # previous /\ previous'[Len(previous')].handler = handler

(***************************************************************************)
(* C30.  Form history stack: once the initial state has been pushed on     *)
(* mount, every sequence of pushCurrentStateToHistory, handleUndo,         *)
(* handleRedo and handleReset leaves history with at least one entry;      *)
(* handleUndo changes nothing when history has one entry, handleRedo       *)
(* changes nothing when future is empty, and every push of a new state     *)
(* empties the future stack.                                               *)
(***************************************************************************)
C30_HistoryStack ==
  /\ [](pc = "form" => Len(history) >= 1)
  /\ [][Calls("handleUndo") /\ Len(history) = 1 => UNCHANGED formState]_vars
  /\ [][Calls("handleRedo") /\ Len(future) = 0 => UNCHANGED formState]_vars
  /\ [][Calls("pushCurrentStateToHistory") /\ history' # history => future' = <<>>]_vars

\* with two states undone and waiting on the redo stack, a push has added
\* a third entry to a history of two and emptied the redo stack
C30_Witness ==
  /\ pc = "form"
  /\ previous # <<>>
  /\ previous[Len(previous)].handler = "pushCurrentStateToHistory"
  /\ Len(previous[Len(previous)].future) >= 1
  /\ Len(previous[Len(previous)].history) = 2
  /\ Len(history) = 3
  /\ future = <<>>

====
